---------------------------- MODULE Spec2Model ----------------------------
(***************************************************************************)
(* A model of termnl: the session log (termnl_runtime.SessionLog), the     *)
(* input classifier, the translator and the REPL dispatcher (termnl.main). *)
(*                                                                         *)
(* A Python str is modelled as a sequence of one-character strings, so     *)
(* that len, slicing, strip, split and splitlines are computed as Python   *)
(* computes them.  A character outside ASCII (the two status glyphs of     *)
(* render_context, the arrow glyph of classify_input) is one element of    *)
(* such a sequence, spelled by its name: "check", "cross", "arrow"; so is  *)
(* the backquote, which a TLA+ string cannot hold: "backtick".             *)
(***************************************************************************)
EXTENDS Integers, Sequences, FiniteSets, TLC

VARIABLES
    \* ---- SessionLog (termnl_runtime.py) ----
    session_log,      \* SessionLog._entries, oldest first
    capacity,         \* SessionLog._entries.maxlen
    token_budget,     \* SessionLog._token_budget
    session_context,  \* the last digest render_context() returned; None before
    \* ---- the REPL (termnl.py) ----
    pc,               \* where main() is: "top", "read", "asking", "asking_tip",
                      \* "confirm_single", "confirm_multi", "seq", "step", "running",
                      \* "confirm_uninstall", "updating", "confirm_restart",
                      \* "confirm_restore", "exit"
    interrupted,      \* _interrupted
    learning_mode,    \* learning_mode
    cwd,              \* os.getcwd()
    user_input,       \* main: user_input
    commands,         \* main: commands
    explanation,      \* main: explanation
    idx,              \* _run_sequence / _run_stepping: i
    mode,             \* which caller of run() is active: "force", "shell", "single", "seq", "step"
    inflight,         \* the command the spawned shell is running; None when none is
    path_execs,       \* the names shutil.which resolves
    \* ---- history variables (not program state) ----
    recorded,         \* every (cmd, output[:600], exit_code) passed to record, in call order
    executed,         \* every command carried out, by run() or by os.chdir, in order
    lines_read,       \* lines read at the main prompt
    intr_in_read,     \* SIGINT arrived while the main prompt was blocked in input()
    line_kind,        \* how the line of this iteration was routed; None before it is read
    answers,          \* the choices given so far in this _run_stepping call, each with
                      \* the number of record calls made before it
    ran,              \* (i, rc) of the steps carried out so far in this multi-step run
    \* ---- locals of main, translate and the prompts ----
    kind,             \* main: kind, the result of classify_input; None when not called
    raw,              \* translate: raw, the first reply; Absent before and when it is None
    tip,              \* translate: tip, the second reply; Raised when the call raised
    err,              \* main, except Exception: err = str(e); Absent when nothing was caught
    confirm,          \* the answer read by _exec_single, _exec_multi, uninstall or
                      \* self_update; Absent before
    \* ---- more history variables ----
    asks,             \* calls of ask_ai made in this iteration
    shown,            \* the outcome message printed in this iteration: "rate_limit",
                      \* "error", "cannot_translate", "no_key", "invalid_key",
                      \* "configured"; None when none was
    eof_seen,         \* an input() call has raised EOFError
    mark,             \* what the last Prompt step saw: the lengths of executed and
                      \* recorded, the log, the directory and the learning flag
    scenario,         \* the family of inputs this behaviour draws from (see Inputs)
    \* ---- the AI provider (termnl.py module state, termnl_ai.py) ----
    provider,         \* provider: "gemini" or "openrouter"
    openrouter_model, \* openrouter_model
    client,           \* client: the provider it was created for and the key it holds
    environ,          \* os.environ: the API key of each provider, "" when unset
    env_file,         \* what write_env last wrote: <<provider, model, the keys>>
    new_provider      \* setup_provider: new_provider; None before the first call

logVars == <<session_log, capacity, token_budget, session_context, recorded>>
replVars == <<pc, interrupted, learning_mode, cwd, user_input, commands, explanation,
              idx, mode, inflight, path_execs, executed, lines_read, intr_in_read,
              line_kind, answers, ran, kind, raw, tip, err, confirm, asks, shown,
              eof_seen, mark, scenario>>
provVars == <<provider, openrouter_model, client, environ, env_file, new_provider>>
vars == <<logVars, replVars, provVars>>

None == "None"
\* None where a str is expected: a sequence that is no str, so that it can be
\* compared with every str, the empty one included
Absent == <<"None">>
\* the value of tip when the second ask raised
Raised == <<"raised">>

-----------------------------------------------------------------------------
(* Bounds of the model *)

\* record calls explored from a fresh SessionLog
MaxRecords == 3
\* longest log handed to render_context in SpecRender
MaxRenderLen == 7
\* lines read at the main prompt
MaxLines == 1
\* lines of a reply handed to translate in SpecTranslate
MaxReplyLines == 4
\* words of a text handed to classify_input in SpecClassify
MaxWords == 4

-----------------------------------------------------------------------------
(* Python str and list primitives *)

Min(a, b) == IF a < b THEN a ELSE b
Max(a, b) == IF a > b THEN a ELSE b

\* c * n
Rep(c, n) == [i \in 1..n |-> c]

\* s[:n]
Prefix(s, n) == SubSeq(s, 1, Min(Len(s), n))

\* s[n:]
DropFirst(s, n) == SubSeq(s, n + 1, Len(s))

\* s.startswith(p)
startswith(s, p) == Len(s) >= Len(p) /\ SubSeq(s, 1, Len(p)) = p

\* the characters str.strip() and str.split() treat as whitespace
Whitespace == {" ", "\n", "\t"}

RECURSIVE lstrip(_)
lstrip(s) == IF s # <<>> /\ Head(s) \in Whitespace THEN lstrip(Tail(s)) ELSE s

RECURSIVE rstrip(_)
rstrip(s) ==
    IF s # <<>> /\ s[Len(s)] \in Whitespace
    THEN rstrip(SubSeq(s, 1, Len(s) - 1))
    ELSE s

\* s.strip()
strip(s) == rstrip(lstrip(s))

\* index of the first occurrence of character c in s, 0 when absent
IndexOf(s, c) ==
    LET hits == {i \in 1..Len(s) : s[i] = c}
    IN  IF hits = {} THEN 0 ELSE CHOOSE i \in hits : \A j \in hits : i <= j

\* s.splitlines(): no empty last line after a final line break
RECURSIVE splitlines(_)
splitlines(s) ==
    IF s = <<>> THEN <<>>
    ELSE LET k == IndexOf(s, "\n")
         IN  IF k = 0 THEN <<s>>
             ELSE <<SubSeq(s, 1, k - 1)>> \o splitlines(DropFirst(s, k))

\* sub in s
Contains(s, sub) ==
    \E i \in 0..(Len(s) - Len(sub)) : SubSeq(s, i + 1, i + Len(sub)) = sub

\* s.split(): the maximal runs of non-whitespace characters
RECURSIVE split(_)
split(s) ==
    LET t == lstrip(s)
        ws == {i \in 1..Len(t) : t[i] \in Whitespace}
        k == IF ws = {} THEN Len(t) + 1 ELSE CHOOSE i \in ws : \A j \in ws : i <= j
    IN  IF t = <<>> THEN <<>>
        ELSE <<SubSeq(t, 1, k - 1)>> \o split(DropFirst(t, k - 1))

UPPER == <<"A", "B", "C", "D", "E", "F", "G", "H", "I", "J", "K", "L", "M",
          "N", "O", "P", "Q", "R", "S", "T", "U", "V", "W", "X", "Y", "Z">>
LOWER == <<"a", "b", "c", "d", "e", "f", "g", "h", "i", "j", "k", "l", "m",
          "n", "o", "p", "q", "r", "s", "t", "u", "v", "w", "x", "y", "z">>

\* c.isupper()
isupper(c) == \E i \in 1..Len(UPPER) : UPPER[i] = c

\* s.lower()
lower(s) ==
    [i \in 1..Len(s) |->
        IF isupper(s[i]) THEN LOWER[CHOOSE k \in 1..Len(UPPER) : UPPER[k] = s[i]] ELSE s[i]]

\* s.islower(): some cased character, and no upper-case one
islower(s) ==
    /\ \E i \in 1..Len(s) : \E k \in 1..Len(LOWER) : LOWER[k] = s[i]
    /\ \A i \in 1..Len(s) : ~isupper(s[i])

\* "\n".join(parts)
RECURSIVE JoinLines(_)
JoinLines(parts) ==
    IF parts = <<>> THEN <<>>
    ELSE IF Len(parts) = 1 THEN parts[1]
    ELSE parts[1] \o <<"\n">> \o JoinLines(Tail(parts))

-----------------------------------------------------------------------------
(* SessionLog *)

SESSION_CAPACITY == 12
TOKEN_BUDGET == 5000
\* the slice bound of output[:600] in record
OUTPUT_LIMIT == 600
\* the slice bound of list(self._entries)[-6:] in render_context
CONTEXT_ENTRIES == 6
\* the slice bound of splitlines()[:3] in render_context
CONTEXT_LINES == 3

\* the timestamp field ts is written by record and read nowhere; it is left out
HistoryEntry(cmd, output, exit_code) ==
    [cmd |-> cmd, output |-> output, exit_code |-> exit_code]

\* output[:600] if output else ""
TruncateOutput(output) == IF output # <<>> THEN Prefix(output, OUTPUT_LIMIT) ELSE <<>>

\* mutant: a deque without maxlen, which never drops
DequeAppend_NoDrop(entries, cap, e) == Append(entries, e)

\* deque(maxlen=cap).append(e): a full deque drops its leftmost element
DequeAppend(entries, cap, e) ==
    IF cap = 0 THEN entries
    ELSE IF Len(entries) >= cap THEN Append(Tail(entries), e)
    ELSE Append(entries, e)

\* sum(len(e.cmd) + len(e.output) for e in self._entries)
RECURSIVE TotalChars(_)
TotalChars(entries) ==
    IF entries = <<>> THEN 0
    ELSE Len(Head(entries).cmd) + Len(Head(entries).output) + TotalChars(Tail(entries))

\* mutant: `if` in place of `while`, evicting at most one entry
EvictOverBudget_Once(entries, budget) ==
    IF Len(entries) > 1 /\ TotalChars(entries) > budget THEN Tail(entries) ELSE entries

\* while len(entries) > 1 and sum(...) > budget: entries.popleft()
RECURSIVE EvictOverBudget(_, _)
EvictOverBudget(entries, budget) ==
    IF Len(entries) > 1 /\ TotalChars(entries) > budget
    THEN EvictOverBudget(Tail(entries), budget)
    ELSE entries

\* mutant: pop() in place of popleft(), evicting the newest entry
record_PopNewest(entries, cap, budget, cmd, output, exit_code) ==
    LET RECURSIVE Evict(_)
        Evict(es) ==
            IF Len(es) > 1 /\ TotalChars(es) > budget
            THEN Evict(SubSeq(es, 1, Len(es) - 1))
            ELSE es
    IN  Evict(DequeAppend(entries, cap,
                          HistoryEntry(cmd, TruncateOutput(output), exit_code)))

\* SessionLog.record: the entries after the call
record(entries, cap, budget, cmd, output, exit_code) ==
    EvictOverBudget(
        DequeAppend(entries, cap, HistoryEntry(cmd, TruncateOutput(output), exit_code)),
        budget)

\* "(no previous commands)"
NO_PREVIOUS ==
    <<"(", "n", "o", " ", "p", "r", "e", "v", "i", "o", "u", "s", " ",
      "c", "o", "m", "m", "a", "n", "d", "s", ")">>

MARK_OK == "check"
MARK_FAIL == "cross"

\* f"[{status}] $ {entry.cmd}"
StatusLine(entry) ==
    <<"[", IF entry.exit_code = 0 THEN MARK_OK ELSE MARK_FAIL, "]", " ", "$", " ">>
        \o entry.cmd

\* f"    {line}"
OutputLine(line) == <<" ", " ", " ", " ">> \o line

\* the parts one entry contributes
EntryParts(entry) ==
    <<StatusLine(entry)>> \o
    (IF entry.output # <<>>
     THEN LET lines == splitlines(strip(entry.output))
          IN  [i \in 1..Min(CONTEXT_LINES, Len(lines)) |-> OutputLine(lines[i])]
     ELSE <<>>)

\* mutant: the slice [-6:] left out
LastEntries_All(entries) == entries

\* list(self._entries)[-6:]
LastEntries(entries) ==
    SubSeq(entries, Max(1, Len(entries) - CONTEXT_ENTRIES + 1), Len(entries))

RECURSIVE ContextParts(_)
ContextParts(entries) ==
    IF entries = <<>> THEN <<>>
    ELSE EntryParts(Head(entries)) \o ContextParts(Tail(entries))

\* SessionLog.render_context
render_context(entries) ==
    IF entries = <<>> THEN NO_PREVIOUS
    ELSE JoinLines(ContextParts(LastEntries(entries)))

-----------------------------------------------------------------------------
(* classify_input (termnl_runtime.py) *)

ARROW == "arrow"
BACKTICK == "backtick"

shell_operators == { <<"|">>, <<"&", "&">>, <<"|", "|">>, <<">", ">">>, <<">", ";">>, <<";">>, <<"$", "(">>, <<BACKTICK>> }

\* a mutant of nl_words: no stop-word at all
nl_words_Empty == {}

nl_words ==
    { <<"h", "o", "w">>,
      <<"w", "h", "a", "t">>,
      <<"w", "h", "y">>,
      <<"w", "h", "e", "r", "e">>,
      <<"w", "h", "e", "n">>,
      <<"w", "h", "o">>,
      <<"w", "h", "i", "c", "h">>,
      <<"c", "a", "n">>,
      <<"c", "o", "u", "l", "d">>,
      <<"w", "o", "u", "l", "d">>,
      <<"s", "h", "o", "u", "l", "d">>,
      <<"p", "l", "e", "a", "s", "e">>,
      <<"h", "e", "l", "p">>,
      <<"t", "e", "l", "l">>,
      <<"g", "i", "v", "e">>,
      <<"i", "s">>,
      <<"a", "r", "e">>,
      <<"d", "o">>,
      <<"d", "o", "e", "s">>,
      <<"t", "h", "e">>,
      <<"m", "y">>,
      <<"m", "e">>,
      <<"a", "l", "l">>,
      <<"a", "b", "o", "u", "t">>,
      <<"n", "e", "e", "d">>,
      <<"w", "a", "n", "t">> }

\* shutil.which(token): execs is the set of names found on the search path
which(token, execs) == token \in execs

\* "=" in p and not p.startswith("=")
IsAssignment(p) == Contains(p, <<"=">>) /\ ~startswith(p, <<"=">>)

\* the first token, or past leading NAME=value tokens the first plain one
effective_token(stripped) ==
    LET parts == split(stripped)
        first_token == IF parts # <<>> THEN parts[1] ELSE <<>>
        plain == {i \in 1..Len(parts) : ~IsAssignment(parts[i])}
    IN  IF IsAssignment(first_token) /\ plain # {}
        THEN parts[CHOOSE i \in plain : \A j \in plain : i <= j]
        ELSE first_token

\* a mutant of score2: the long-sentence rule reads the score of the shell
\* signals alone, not the running score
score2_LengthReadsPositive(stripped, execs) ==
    LET token == effective_token(stripped)
        tokens_lower == {lower(split(stripped)[i]) : i \in 1..Len(split(stripped))}
        nl_overlap == Cardinality(tokens_lower \cap nl_words)
        word_count == Len(split(stripped))
        positive ==
            (IF \/ startswith(token, <<".", "/">>)
                \/ startswith(token, <<"/">>)
                \/ startswith(token, <<"~">>) THEN 6 ELSE 0)
            + (IF startswith(token, <<"$">>) THEN 5 ELSE 0)
            + (IF which(token, execs) THEN 4 ELSE 0)
            + (IF \E op \in shell_operators : Contains(stripped, op) THEN 5 ELSE 0)
            + (IF /\ Contains(stripped, <<">">>)
                  /\ ~Contains(stripped, <<">", ">">>)
                  /\ ~Contains(stripped, <<ARROW>>) THEN 4 ELSE 0)
        after_words ==
            positive
            + (IF nl_overlap >= 2 THEN -4
               ELSE IF nl_overlap = 1 /\ Cardinality(tokens_lower) > 2 THEN -1
               ELSE 0)
        after_length ==
            after_words + (IF word_count >= 4 /\ positive < 4 THEN -3 ELSE 0)
    IN  after_length
        + (IF isupper(stripped[1]) /\ word_count > 1 THEN -2 ELSE 0)
        + (IF Contains(stripped, <<"?">>) THEN -6 ELSE 0)
        + (IF word_count <= 3 /\ nl_overlap = 0 /\ islower(stripped) THEN 2 ELSE 0)

\* a mutant of score2: the question mark costs 1.0 instead of 3.0
score2_WeakQuestion(stripped, execs) ==
    LET token == effective_token(stripped)
        tokens_lower == {lower(split(stripped)[i]) : i \in 1..Len(split(stripped))}
        nl_overlap == Cardinality(tokens_lower \cap nl_words)
        word_count == Len(split(stripped))
        positive ==
            (IF \/ startswith(token, <<".", "/">>)
                \/ startswith(token, <<"/">>)
                \/ startswith(token, <<"~">>) THEN 6 ELSE 0)
            + (IF startswith(token, <<"$">>) THEN 5 ELSE 0)
            + (IF which(token, execs) THEN 4 ELSE 0)
            + (IF \E op \in shell_operators : Contains(stripped, op) THEN 5 ELSE 0)
            + (IF /\ Contains(stripped, <<">">>)
                  /\ ~Contains(stripped, <<">", ">">>)
                  /\ ~Contains(stripped, <<ARROW>>) THEN 4 ELSE 0)
        after_words ==
            positive
            + (IF nl_overlap >= 2 THEN -4
               ELSE IF nl_overlap = 1 /\ Cardinality(tokens_lower) > 2 THEN -1
               ELSE 0)
        after_length ==
            after_words + (IF word_count >= 4 /\ after_words < 4 THEN -3 ELSE 0)
    IN  after_length
        + (IF isupper(stripped[1]) /\ word_count > 1 THEN -2 ELSE 0)
        + (IF Contains(stripped, <<"?">>) THEN -2 ELSE 0)
        + (IF word_count <= 3 /\ nl_overlap = 0 /\ islower(stripped) THEN 2 ELSE 0)

\* the classification score, doubled so that every weight is an integer
score2(stripped, execs) ==
    LET token == effective_token(stripped)
        tokens_lower == {lower(split(stripped)[i]) : i \in 1..Len(split(stripped))}
        nl_overlap == Cardinality(tokens_lower \cap nl_words)
        word_count == Len(split(stripped))
        positive ==
            (IF \/ startswith(token, <<".", "/">>)
                \/ startswith(token, <<"/">>)
                \/ startswith(token, <<"~">>) THEN 6 ELSE 0)
            + (IF startswith(token, <<"$">>) THEN 5 ELSE 0)
            + (IF which(token, execs) THEN 4 ELSE 0)
            + (IF \E op \in shell_operators : Contains(stripped, op) THEN 5 ELSE 0)
            + (IF /\ Contains(stripped, <<">">>)
                  /\ ~Contains(stripped, <<">", ">">>)
                  /\ ~Contains(stripped, <<ARROW>>) THEN 4 ELSE 0)
        after_words ==
            positive
            + (IF nl_overlap >= 2 THEN -4
               ELSE IF nl_overlap = 1 /\ Cardinality(tokens_lower) > 2 THEN -1
               ELSE 0)
        after_length ==
            after_words + (IF word_count >= 4 /\ after_words < 4 THEN -3 ELSE 0)
    IN  after_length
        + (IF isupper(stripped[1]) /\ word_count > 1 THEN -2 ELSE 0)
        + (IF Contains(stripped, <<"?">>) THEN -6 ELSE 0)
        + (IF word_count <= 3 /\ nl_overlap = 0 /\ islower(stripped) THEN 2 ELSE 0)

S_cd == <<"c", "d">>
S_cd_sp == <<"c", "d", " ">>
S_exit == <<"e", "x", "i", "t">>
S_quit == <<"q", "u", "i", "t">>
S_bang == <<"!">>

\* a mutant of classify_input: no cd override
classify_input_NoCdOverride(text, execs) ==
    LET stripped == strip(text)
    IN  IF stripped = <<>> THEN "builtin"
        ELSE IF startswith(stripped, S_bang) THEN "builtin"
        ELSE IF stripped \in {S_exit, S_quit} THEN "builtin"
        ELSE IF score2(stripped, execs) >= 2 THEN "shell"
        ELSE "natural"

classify_input(text, execs) ==
    LET stripped == strip(text)
    IN  IF stripped = <<>> THEN "builtin"
        ELSE IF startswith(stripped, S_bang) THEN "builtin"
        ELSE IF stripped \in {S_exit, S_quit} THEN "builtin"
        ELSE IF stripped = S_cd \/ startswith(stripped, S_cd_sp) THEN "shell"
        ELSE IF score2(stripped, execs) >= 2 THEN "shell"
        ELSE "natural"

-----------------------------------------------------------------------------
(* translate and run (termnl_runtime.py) *)

\* a mutant of StripNonBlank: the kept lines are not stripped
RECURSIVE StripNonBlank_Unstripped(_)
StripNonBlank_Unstripped(lines) ==
    IF lines = <<>> THEN <<>>
    ELSE (IF strip(Head(lines)) # <<>> THEN <<Head(lines)>> ELSE <<>>)
         \o StripNonBlank_Unstripped(Tail(lines))

\* [ln.strip() for ln in raw.splitlines() if ln.strip()]
RECURSIVE StripNonBlank(_)
StripNonBlank(lines) ==
    IF lines = <<>> THEN <<>>
    ELSE (IF strip(Head(lines)) # <<>> THEN <<strip(Head(lines))>> ELSE <<>>)
         \o StripNonBlank(Tail(lines))

\* the command list translate builds from the first reply
ParseCommands(reply) ==
    IF reply = Absent \/ reply = <<>> THEN <<>> ELSE StripNonBlank(splitlines(reply))

PTY_COMMANDS ==
    { <<"c", "l", "e", "a", "r">>,
      <<"t", "o", "p">>,
      <<"h", "t", "o", "p">>,
      <<"v", "i", "m">>,
      <<"v", "i">>,
      <<"n", "a", "n", "o">>,
      <<"l", "e", "s", "s">>,
      <<"m", "o", "r", "e">>,
      <<"m", "a", "n">>,
      <<"s", "s", "h">>,
      <<"t", "m", "u", "x">>,
      <<"s", "c", "r", "e", "e", "n">> }

needs_pty(cmd) ==
    LET parts == split(cmd)
    IN  (IF parts # <<>> THEN parts[1] ELSE <<>>) \in PTY_COMMANDS

\* run(cmd), given what the spawned process wrote and returned
run(cmd, proc) ==
    IF needs_pty(cmd)
    THEN [stdout |-> <<>>, stderr |-> <<>>, rc |-> proc.rc]
    ELSE [stdout |-> proc.stdout, stderr |-> proc.stderr, rc |-> proc.rc]

-----------------------------------------------------------------------------
(* The REPL: constants and inputs (termnl.py) *)

S_learn == <<"!", "l", "e", "a", "r", "n">>
S_help == <<"!", "h", "e", "l", "p">>
S_update == <<"!", "u", "p", "d", "a", "t", "e">>
S_uninstall == <<"!", "u", "n", "i", "n", "s", "t", "a", "l", "l">>

S_provider == <<"!", "p", "r", "o", "v", "i", "d", "e", "r">>

\* the keys of _BUILTINS
BUILTINS ==
    { S_provider,
      <<"!", "m", "o", "d", "e", "l">>,
      S_learn,
      <<"!", "a", "u", "t", "o", "l", "a", "u", "n", "c", "h">>,
      S_update,
      S_uninstall,
      S_help }

S_ls == <<"l", "s">>
S_y == <<"y">>
S_yes == <<"y", "e", "s">>
S_q == <<"q">>
S_step == <<"s", "t", "e", "p">>
\* choice in ("y", "yes", "")
YES == {S_y, S_yes, <<>>}

HOME == <<"/", "h">>
START_DIR == <<"/", "w">>

\* os.path.expanduser
expanduser(path) ==
    IF path = <<"~">> \/ startswith(path, <<"~", "/">>) THEN HOME \o Tail(path) ELSE path

\* the directory _handle_cd(args) changes to
CdTarget(args) ==
    IF strip(args) # <<>> THEN expanduser(strip(args)) ELSE expanduser(<<"~">>)

\* the directory of os.chdir(os.path.expanduser(cmd[3:].strip()))
StepCdTarget(cmd) == expanduser(strip(DropFirst(cmd, 3)))

\* a cd line that scores as a question
S_cd_question == <<"c", "d", " ", "w", "h", "a", "t", " ", "i", "s", " ", "t", "h", "e", " ", "d", "i", "r", "?">>

\* the lines typed at the main prompt
Lines ==
    { <<>>, S_exit, S_cd, <<"c", "d", " ", "/", "d">>, S_learn, S_help, S_update, S_uninstall,
      S_bang, <<"!", "l", "s">>, <<"!", "c", "d", " ", "/", "d">>,
      S_cd_question,
      <<" ", "l", "s", " ">>,
      <<"w", "h", "a", "t", " ", "i", "s", " ", "i", "t">> }

\* what ask_ai returns to translate's first call (already stripped, or None)
AskReplies ==
    { Absent, S_ls, S_cd, <<"c", "d", " ", "/", "d">>,
      <<"l", "s", "\n", "\n", " ", "p", "w", "d", "\n", "c", "d", " ", "/", "d">>,
      <<"c", "d", " ", "~", "\n", "l", "s">> }

\* what ask_ai returns to translate's second call
TipReplies == { Absent, <<"t", "i", "p">> }

\* what a spawned process writes and returns
ProcResults ==
    { [stdout |-> <<"o", "\n">>, stderr |-> <<>>, rc |-> 0],
      [stdout |-> <<>>, stderr |-> <<"e", "\n">>, rc |-> 1] }

\* the answers typed at the prompts of _exec_single, _exec_multi, _run_stepping
SingleAnswers == { <<>>, S_y, <<" ">> }
\* the answers typed at "Remove termnl? [y/N]" and at "Restart now? [y/N]"
UninstallAnswers == { <<>>, S_y, <<"Y">>, <<" ", "y">> }
RestartAnswers == { <<>>, <<" ", "Y">>, <<"n">> }
MultiAnswers == { <<>>, <<"Y", " ">>, S_yes, S_step, <<"n">> }
StepAnswers == { <<>>, S_y, S_yes, <<"n">>, <<" ", "Q">> }

PathConfigs == { {S_ls, <<"p", "w", "d">>} }

\* Two families of inputs.  "full": every kind of line, reply and answer,
\* MaxLines lines long.  "session": one line longer, with a shell line, a
\* request, replies of one and two commands, and run-all or cancel as the
\* answers to a plan.
SessionLines == { S_ls, <<"w", "h", "a", "t", " ", "i", "s", " ", "i", "t">> }
SessionReplies == { S_ls, <<"l", "s", "\n", "p", "w", "d">> }
SessionMultiAnswers == { <<>>, <<"n">> }

\* the lines of a session of provider switches
ProviderLines == { S_provider }

LineLimit == IF scenario \in {"session", "provider"} THEN MaxLines + 1 ELSE MaxLines
TypedLines ==
    IF scenario = "session" THEN SessionLines
    ELSE IF scenario = "provider" THEN ProviderLines
    ELSE Lines
\* the lines a reply of the first ask is made of in SpecTranslate
ReplyLines == { <<>>, S_ls, <<"l", "s", " ", "-", "l", "a">>, <<" ", "p", "w", "d", "\t">> }
\* the replies of the first ask in SpecTranslate: None and every text of up to
\* MaxReplyLines lines joined by line breaks
TranslateReplies ==
    {Absent} \cup
    { JoinLines(parts) : parts \in UNION { [1..n -> ReplyLines] : n \in 1..MaxReplyLines } }
\* the replies of the second ask in SpecTranslate: None, "" and a text
TranslateTips == TipReplies \cup { <<>> }

Replies ==
    IF scenario = "session" THEN SessionReplies
    ELSE IF scenario = "translate" THEN TranslateReplies
    ELSE AskReplies
Tips == IF scenario = "translate" THEN TranslateTips ELSE TipReplies
MultiChoices == IF scenario = "session" THEN SessionMultiAnswers ELSE MultiAnswers

-----------------------------------------------------------------------------
(* Inputs of the SessionLog specifications *)

S_a == <<"a">>
S_bb == <<"b", "b">>
\* five lines, the second blank
S_out5 == <<"x", "\n", "\n", "y", "\n", "z", "\n", "w", "\n">>
\* one line longer than OUTPUT_LIMIT
S_long == Rep("o", OUTPUT_LIMIT + 1)

LogCmds == {S_a, S_bb}
LogOutputs == {<<>>, S_out5, S_long}
ExitCodes == {0, 1}

\* SessionLog(capacity, token_budget): the constructor arguments explored
LogConfigs ==
    { <<0, TOKEN_BUDGET>>, <<1, TOKEN_BUDGET>>, <<2, TOKEN_BUDGET>>,
      <<3, 10>>, <<3, 700>>, <<SESSION_CAPACITY, TOKEN_BUDGET>> }

\* the triple a record call is given, as the claims state it
RecordedTriple(cmd, output, exit_code) ==
    [cmd |-> cmd,
     output |-> SubSeq(output, 1, IF Len(output) < 600 THEN Len(output) ELSE 600),
     exit_code |-> exit_code]

\* "google/gemini-2.5-flash", the default of openrouter_model
DEFAULT_MODEL == <<"g", "o", "o", "g", "l", "e", "/", "g", "e", "m", "i", "n", "i", "-", "2", ".", "5", "-", "f", "l", "a", "s", "h">>

\* create_client(provider): a client of that provider holding the key that
\* os.environ has for it
create_client(p, env) == [provider |-> p, api_key |-> env[p]]

\* what is typed at "> ", at the API key prompts and at "Enter model"
ProviderChoices == { <<"1">>, <<" ", "2">>, <<>> }
ApiKeys == { <<>>, <<" ", "k", "2", " ">> }
ModelInputs == { <<>>, <<"m", "2", " ">> }

\* the provider state after _boot found a Gemini key in the environment
InitProvider ==
    /\ provider = "gemini"
    /\ openrouter_model = DEFAULT_MODEL
    /\ environ = [p \in {"gemini", "openrouter"} |-> IF p = "gemini" THEN <<"k", "0">> ELSE <<>>]
    /\ client = create_client(provider, environ)
    /\ env_file = <<provider, openrouter_model, environ>>
    /\ new_provider = None

\* what a Prompt step remembers of the state it starts the iteration in
Seen ==
    [executed |-> Len(executed), recorded |-> Len(recorded), session_log |-> session_log,
     cwd |-> cwd, learning_mode |-> learning_mode, provider |-> provider,
     openrouter_model |-> openrouter_model, client |-> client, environ |-> environ,
     env_file |-> env_file]

\* main() before its first iteration
InitRepl ==
    /\ pc = "top"
    /\ interrupted = FALSE
    /\ learning_mode \in BOOLEAN
    /\ cwd = START_DIR
    /\ user_input = None
    /\ commands = <<>>
    /\ explanation = None
    /\ idx = 0
    /\ mode = None
    /\ inflight = None
    /\ path_execs \in PathConfigs
    /\ executed = <<>>
    /\ lines_read = 0
    /\ intr_in_read = FALSE
    /\ line_kind = None
    /\ answers = <<>>
    /\ ran = <<>>
    /\ kind = None
    /\ raw = Absent
    /\ tip = Absent
    /\ err = Absent
    /\ confirm = Absent
    /\ asks = 0
    /\ shown = None
    /\ eof_seen = FALSE
    /\ scenario \in {"full", "session", "provider"}
    /\ InitProvider
    /\ mark = Seen

\* the REPL is not running in the specifications of the SessionLog alone
ReplIdle ==
    /\ InitRepl
    /\ learning_mode = FALSE
    /\ scenario = "full"

-----------------------------------------------------------------------------
(* SpecLog: a SessionLog under any sequence of record and render_context   *)
(* calls                                                                   *)

InitLog ==
    /\ \E cfg \in LogConfigs : capacity = cfg[1] /\ token_budget = cfg[2]
    /\ session_log = <<>>
    /\ session_context = None
    /\ recorded = <<>>
    /\ ReplIdle

LogRecord ==
    /\ Len(recorded) < MaxRecords
    /\ \E cmd \in LogCmds, output \in LogOutputs, rc \in ExitCodes :
        /\ session_log' = record(session_log, capacity, token_budget, cmd, output, rc)
        /\ recorded' = Append(recorded, RecordedTriple(cmd, output, rc))
    /\ session_context' = None
    /\ UNCHANGED <<capacity, token_budget, replVars, provVars>>

LogRender ==
    /\ session_context = None
    /\ session_context' = render_context(session_log)
    /\ UNCHANGED <<session_log, capacity, token_budget, recorded, replVars, provVars>>

NextLog == LogRecord \/ LogRender

SpecLog == InitLog /\ [][NextLog]_vars

-----------------------------------------------------------------------------
(* SpecRender: render_context applied to logs of up to MaxRenderLen entries *)

\* whitespace around two lines
S_out2 == <<" ", "y", "\n", "z", "\n">>

RenderEntries ==
    { HistoryEntry(S_a, <<>>, 0), HistoryEntry(S_bb, S_out5, 1),
      HistoryEntry(S_a, S_out2, 0) }

RenderLogs == UNION { [1..n -> RenderEntries] : n \in 0..MaxRenderLen }

InitRender ==
    /\ capacity = SESSION_CAPACITY
    /\ token_budget = TOKEN_BUDGET
    /\ session_log \in RenderLogs
    /\ recorded = session_log
    /\ session_context = None
    /\ ReplIdle

NextRender == LogRender

SpecRender == InitRender /\ [][NextRender]_vars

-----------------------------------------------------------------------------
(* Spec: the REPL of termnl.py.  main() is one thread; it blocks in input() *)
(* (pc "read", "confirm_single", "confirm_multi", "step"), in ask_ai (pc    *)
(* "asking", "asking_tip") and in run() (pc "running"); what it does        *)
(* between two blocking calls is one step.                                  *)

Init ==
    /\ capacity = SESSION_CAPACITY
    /\ token_budget = TOKEN_BUDGET
    /\ session_log = <<>>
    /\ session_context = None
    /\ recorded = <<>>
    /\ InitRepl

\* a carried-out command, as the history remembers it
Executed(cmd, rc, via) == [cmd |-> cmd, rc |-> rc, via |-> via]

\* exit_code: int = 0, the default of SessionLog.record
DEFAULT_EXIT_CODE == 0

S_429 == <<"4", "2", "9">>
S_quota == <<"q", "u", "o", "t", "a">>
S_Interrupt == <<"I", "n", "t", "e", "r", "r", "u", "p", "t">>

\* str(e) of the exceptions a collaborator raises
ErrTexts ==
    { <<"H", "T", "T", "P", " ", "4", "2", "9">>,
      <<"Q", "u", "o", "t", "a", " ", "h", "i", "t">>,
      <<"b", "o", "o", "m">>,
      <<"I", "n", "t", "e", "r", "r", "u", "p", "t", "e", "d">> }

\* mutant: quota looked for in err as it is, not in err.lower()
Message_CaseSensitive(e) ==
    IF Contains(e, S_429) \/ Contains(e, S_quota) THEN "rate_limit"
    ELSE IF ~Contains(e, S_Interrupt) THEN "error"
    ELSE None

\* what main's except Exception prints for err
Message(e) ==
    IF Contains(e, S_429) \/ Contains(lower(e), S_quota) THEN "rate_limit"
    ELSE IF ~Contains(e, S_Interrupt) THEN "error"
    ELSE None

\* mutant: the exception is not caught and ends the process
Caught_Uncaught(e) ==
    /\ err' = e
    /\ shown' = None
    /\ pc' = "exit"

\* main: except Exception as e, then on to the next iteration
Caught(e) ==
    /\ err' = e
    /\ shown' = Message(e)
    /\ pc' = "top"

\* the branch of main's if-chain that takes the stripped line u; "classify"
\* when none of the branches before the classify_input call does
\* a mutant of ForceCmd: the "!" is left on the command
ForceCmd_Whole(u) == u

\* main: cmd = user_input[1:]
ForceCmd(u) == DropFirst(u, 1)

\* a mutant of Route: a "!" line that is no builtin token goes on to
\* classify_input
Route_BangClassified(u) ==
    IF u = <<>> THEN "blank"
    ELSE IF u \in {S_exit, S_quit} THEN "exit"
    ELSE IF u = S_cd \/ startswith(u, S_cd_sp) THEN "cd"
    ELSE IF u \in BUILTINS THEN "builtin"
    ELSE "classify"

Route(u) ==
    IF u = <<>> THEN "blank"
    ELSE IF u \in {S_exit, S_quit} THEN "exit"
    ELSE IF u = S_cd \/ startswith(u, S_cd_sp) THEN "cd"
    ELSE IF u \in BUILTINS THEN "builtin"
    ELSE IF startswith(u, S_bang)
         THEN (IF ForceCmd(u) # <<>> THEN "force" ELSE "bang")
    ELSE "classify"

\* _on_sigint.  The handler returns normally, so a blocked input(), ask_ai
\* or run() resumes (PEP 475) and no KeyboardInterrupt is ever raised.
SigInt ==
    /\ pc # "exit"
    /\ ~interrupted \/ (pc = "read" /\ ~intr_in_read)
    /\ interrupted' = TRUE
    /\ intr_in_read' = (intr_in_read \/ pc = "read")
    /\ UNCHANGED <<logVars, pc, learning_mode, cwd, user_input, commands, explanation,
                   idx, mode, inflight, path_execs, executed, lines_read, line_kind,
                   answers, ran, kind, raw, tip, err, confirm, asks, shown, eof_seen,
                   mark, scenario, provVars>>

\* main, top of the loop: if _interrupted: _interrupted = False; continue
ClearInterrupt ==
    /\ pc = "top"
    /\ interrupted
    /\ interrupted' = FALSE
    /\ UNCHANGED <<logVars, pc, learning_mode, cwd, user_input, commands, explanation,
                   idx, mode, inflight, path_execs, executed, lines_read, intr_in_read,
                   line_kind, answers, ran, kind, raw, tip, err, confirm, asks, shown,
                   eof_seen, mark, scenario, provVars>>

\* main, top of the loop: build the prompt and block in input()
Prompt ==
    /\ pc = "top"
    /\ ~interrupted
    /\ pc' = "read"
    /\ user_input' = None
    /\ commands' = <<>>
    /\ explanation' = None
    /\ idx' = 0
    /\ mode' = None
    /\ session_context' = None
    /\ intr_in_read' = FALSE
    /\ line_kind' = None
    /\ answers' = <<>>
    /\ ran' = <<>>
    /\ kind' = None
    /\ raw' = Absent
    /\ tip' = Absent
    /\ err' = Absent
    /\ confirm' = Absent
    /\ asks' = 0
    /\ shown' = None
    /\ mark' = Seen
    /\ UNCHANGED <<session_log, capacity, token_budget, recorded, interrupted,
                   learning_mode, cwd, inflight, path_execs, executed, lines_read,
                   eof_seen, scenario, provVars>>

Reading == pc = "read" /\ lines_read < LineLimit

\* user_input = input(prompt_prefix).strip(), taken by branch k before the
\* classify_input call
Took(line, k) ==
    /\ Route(strip(line)) = k
    /\ user_input' = strip(line)
    /\ lines_read' = lines_read + 1
    /\ line_kind' = k
    /\ kind' = None

\* user_input = input(prompt_prefix).strip(), which reaches
\* kind = classify_input(user_input); shell tells which way kind == "shell" goes
Classified(line, shell) ==
    /\ Route(strip(line)) = "classify"
    /\ LET c == classify_input(strip(line), path_execs)
       IN  (c = "shell") = shell /\ kind' = c
    /\ user_input' = strip(line)
    /\ lines_read' = lines_read + 1
    /\ line_kind' = IF shell THEN "shell" ELSE "natural"

\* except EOFError: break
ReadEOF ==
    /\ Reading
    /\ pc' = "exit"
    /\ eof_seen' = TRUE
    /\ lines_read' = lines_read + 1
    /\ line_kind' = "eof"
    /\ UNCHANGED <<logVars, interrupted, learning_mode, cwd, user_input, commands,
                   explanation, idx, mode, inflight, path_execs, executed, intr_in_read,
                   answers, ran, kind, raw, tip, err, confirm, asks, shown, mark,
                   scenario, provVars>>

\* if not user_input: continue
ReadBlank ==
    /\ Reading
    /\ \E line \in TypedLines : Took(line, "blank")
    /\ pc' = "top"
    /\ UNCHANGED <<logVars, interrupted, learning_mode, cwd, commands, explanation, idx,
                   mode, inflight, path_execs, executed, intr_in_read, answers, ran, raw,
                   tip, err, confirm, asks, shown, eof_seen, mark, scenario, provVars>>

\* if user_input in ("exit", "quit"): break
ReadExit ==
    /\ Reading
    /\ \E line \in TypedLines : Took(line, "exit")
    /\ pc' = "exit"
    /\ UNCHANGED <<logVars, interrupted, learning_mode, cwd, commands, explanation, idx,
                   mode, inflight, path_execs, executed, intr_in_read, answers, ran, raw,
                   tip, err, confirm, asks, shown, eof_seen, mark, scenario, provVars>>

\* if user_input == "cd" or user_input.startswith("cd "): _handle_cd(user_input[3:])
ReadCd ==
    /\ Reading
    /\ \E line \in TypedLines, ok \in BOOLEAN :
        /\ Took(line, "cd")
        /\ cwd' = IF ok THEN CdTarget(DropFirst(strip(line), 3)) ELSE cwd
        /\ executed' = Append(executed,
                              Executed(strip(line), IF ok THEN 0 ELSE 1, "chdir"))
    /\ pc' = "top"
    /\ UNCHANGED <<logVars, interrupted, learning_mode, commands, explanation, idx, mode,
                   inflight, path_execs, intr_in_read, answers, ran, raw, tip, err,
                   confirm, asks, shown, eof_seen, mark, scenario, provVars>>

\* if user_input in _BUILTINS: _BUILTINS[user_input]()
\* (_handle_learn and _print_help)
ReadBuiltin ==
    /\ Reading
    /\ \E line \in TypedLines :
        /\ Took(line, "builtin")
        /\ strip(line) \in {S_learn, S_help}
        /\ learning_mode' = IF strip(line) = S_learn THEN ~learning_mode ELSE learning_mode
    /\ pc' = "top"
    /\ UNCHANGED <<logVars, interrupted, cwd, commands, explanation, idx, mode, inflight,
                   path_execs, executed, intr_in_read, answers, ran, raw, tip, err,
                   confirm, asks, shown, eof_seen, mark, scenario, provVars>>

\* _BUILTINS["!uninstall"]: uninstall blocks in input("Remove termnl? [y/N]")
ReadUninstall ==
    /\ Reading
    /\ \E line \in TypedLines :
        /\ Took(line, "builtin")
        /\ strip(line) = S_uninstall
    /\ pc' = "confirm_uninstall"
    /\ UNCHANGED <<logVars, interrupted, learning_mode, cwd, commands, explanation, idx,
                   mode, inflight, path_execs, executed, intr_in_read, answers, ran, raw,
                   tip, err, confirm, asks, shown, eof_seen, mark, scenario, provVars>>

\* uninstall: if confirm.lower() != "y": return
UninstallCancel ==
    /\ pc = "confirm_uninstall"
    /\ \E answer \in UninstallAnswers : lower(answer) # S_y /\ confirm' = answer
    /\ pc' = "top"
    /\ UNCHANGED <<logVars, interrupted, learning_mode, cwd, user_input, commands,
                   explanation, idx, mode, inflight, path_execs, executed, lines_read,
                   intr_in_read, line_kind, answers, ran, kind, raw, tip, err, asks,
                   shown, eof_seen, mark, scenario, provVars>>

\* uninstall: the files are removed, then sys.exit(0); SystemExit is no
\* Exception, so main does not catch it
UninstallExit ==
    /\ pc = "confirm_uninstall"
    /\ \E answer \in UninstallAnswers : lower(answer) = S_y /\ confirm' = answer
    /\ pc' = "exit"
    /\ UNCHANGED <<logVars, interrupted, learning_mode, cwd, user_input, commands,
                   explanation, idx, mode, inflight, path_execs, executed, lines_read,
                   intr_in_read, line_kind, answers, ran, kind, raw, tip, err, asks,
                   shown, eof_seen, mark, scenario, provVars>>

\* uninstall: shutil.rmtree, os.remove or open raises; main's except Exception
UninstallRaise ==
    /\ pc = "confirm_uninstall"
    /\ \E answer \in UninstallAnswers : lower(answer) = S_y /\ confirm' = answer
    /\ \E e \in ErrTexts : Caught(e)
    /\ UNCHANGED <<logVars, interrupted, learning_mode, cwd, user_input, commands,
                   explanation, idx, mode, inflight, path_execs, executed, lines_read,
                   intr_in_read, line_kind, answers, ran, kind, raw, tip, asks, eof_seen,
                   mark, scenario, provVars>>

\* _BUILTINS["!update"]: self_update fetches and copies
ReadUpdate ==
    /\ Reading
    /\ \E line \in TypedLines :
        /\ Took(line, "builtin")
        /\ strip(line) = S_update
    /\ pc' = "updating"
    /\ UNCHANGED <<logVars, interrupted, learning_mode, cwd, commands, explanation, idx,
                   mode, inflight, path_execs, executed, intr_in_read, answers, ran, raw,
                   tip, err, confirm, asks, shown, eof_seen, mark, scenario, provVars>>

\* self_update returns without a prompt: not an installed copy, already up
\* to date, download failed, or a failure with no backup to restore
UpdateReturn ==
    /\ pc = "updating"
    /\ pc' = "top"
    /\ UNCHANGED <<logVars, interrupted, learning_mode, cwd, user_input, commands,
                   explanation, idx, mode, inflight, path_execs, executed, lines_read,
                   intr_in_read, line_kind, answers, ran, kind, raw, tip, err, confirm,
                   asks, shown, eof_seen, mark, scenario, provVars>>

\* self_update: the update is complete, input("Restart now? [y/N]")
UpdateDone ==
    /\ pc = "updating"
    /\ pc' = "confirm_restart"
    /\ UNCHANGED <<logVars, interrupted, learning_mode, cwd, user_input, commands,
                   explanation, idx, mode, inflight, path_execs, executed, lines_read,
                   intr_in_read, line_kind, answers, ran, kind, raw, tip, err, confirm,
                   asks, shown, eof_seen, mark, scenario, provVars>>

\* self_update: except Exception with a backup, input("Restore from backup? [y/N]")
UpdateFail ==
    /\ pc = "updating"
    /\ pc' = "confirm_restore"
    /\ UNCHANGED <<logVars, interrupted, learning_mode, cwd, user_input, commands,
                   explanation, idx, mode, inflight, path_execs, executed, lines_read,
                   intr_in_read, line_kind, answers, ran, kind, raw, tip, err, confirm,
                   asks, shown, eof_seen, mark, scenario, provVars>>

\* self_update: the answer is y, os.execv replaces the process
RestartYes ==
    /\ pc = "confirm_restart"
    /\ \E answer \in RestartAnswers : lower(strip(answer)) = S_y /\ confirm' = answer
    /\ pc' = "exit"
    /\ UNCHANGED <<logVars, interrupted, learning_mode, cwd, user_input, commands,
                   explanation, idx, mode, inflight, path_execs, executed, lines_read,
                   intr_in_read, line_kind, answers, ran, kind, raw, tip, err, asks,
                   shown, eof_seen, mark, scenario, provVars>>

\* self_update: any other answer to either prompt, and self_update returns
UpdateAnswered ==
    /\ \/ /\ pc = "confirm_restart"
          /\ \E answer \in RestartAnswers : lower(strip(answer)) # S_y /\ confirm' = answer
       \/ /\ pc = "confirm_restore"
          /\ \E answer \in RestartAnswers : confirm' = answer
    /\ pc' = "top"
    /\ UNCHANGED <<logVars, interrupted, learning_mode, cwd, user_input, commands,
                   explanation, idx, mode, inflight, path_execs, executed, lines_read,
                   intr_in_read, line_kind, answers, ran, kind, raw, tip, err, asks,
                   shown, eof_seen, mark, scenario, provVars>>

\* _BUILTINS["!provider"]: _handle_provider calls setup_provider(switch_mode=True),
\* which blocks in input("> ")
ReadProvider ==
    /\ Reading
    /\ \E line \in TypedLines :
        /\ Took(line, "builtin")
        /\ strip(line) = S_provider
    /\ pc' = "provider_choice"
    /\ UNCHANGED <<logVars, interrupted, learning_mode, cwd, commands, explanation, idx,
                   mode, inflight, path_execs, executed, intr_in_read, answers, ran, raw,
                   tip, err, confirm, asks, shown, eof_seen, mark, scenario, provider,
                   openrouter_model, client, environ, env_file, new_provider>>

\* setup_provider: choice == "2" is OpenRouter, everything else Gemini
Chosen(choice) == IF strip(choice) = <<"2">> THEN "openrouter" ELSE "gemini"

\* setup_provider: choice = input("> ").strip(), then the API key prompt
ProviderChoice ==
    /\ pc = "provider_choice"
    /\ \E choice \in ProviderChoices : new_provider' = Chosen(choice)
    /\ pc' = "provider_key"
    /\ UNCHANGED <<logVars, interrupted, learning_mode, cwd, user_input, commands,
                   explanation, idx, mode, inflight, path_execs, executed, lines_read,
                   intr_in_read, line_kind, answers, ran, kind, raw, tip, err, confirm,
                   asks, shown, eof_seen, mark, scenario, provider, openrouter_model,
                   client, environ, env_file>>

\* a mutant of Switched: the client is left as it was
Switched_OldClient(p, m, env) ==
    /\ env_file' = <<p, m, env>>
    /\ provider' = p
    /\ openrouter_model' = m
    /\ client' = client
    /\ shown' = "configured"
    /\ pc' = "top"

\* setup_provider: persist_env(new_provider, new_model); return True, ... and
\* _handle_provider: provider, openrouter_model = ...; client = create_client(provider)
Switched(p, m, env) ==
    /\ env_file' = <<p, m, env>>
    /\ provider' = p
    /\ openrouter_model' = m
    /\ client' = create_client(p, env)
    /\ shown' = "configured"
    /\ pc' = "top"

\* setup_provider: no key entered, or the validation call rejects the key:
\* return False, provider, openrouter_model
ProviderFail ==
    /\ pc = "provider_key"
    /\ \E key \in ApiKeys, valid \in BOOLEAN :
        /\ confirm' = strip(key)
        /\ strip(key) = <<>> \/ ~valid
        /\ shown' = IF strip(key) = <<>> THEN "no_key" ELSE "invalid_key"
    /\ pc' = "top"
    /\ UNCHANGED <<logVars, interrupted, learning_mode, cwd, user_input, commands,
                   explanation, idx, mode, inflight, path_execs, executed,
                   lines_read, intr_in_read, line_kind, answers, ran, kind, raw,
                   tip, err, asks, eof_seen, mark, scenario, provider,
                   openrouter_model, client, environ, env_file, new_provider>>

\* setup_provider, Gemini: the key is accepted (or could not be checked), put in
\* os.environ and the switch is made
ProviderGemini ==
    /\ pc = "provider_key"
    /\ new_provider = "gemini"
    /\ \E key \in ApiKeys :
        /\ strip(key) # <<>>
        /\ confirm' = strip(key)
        /\ environ' = [environ EXCEPT !["gemini"] = strip(key)]
        /\ Switched("gemini", openrouter_model, [environ EXCEPT !["gemini"] = strip(key)])
    /\ UNCHANGED <<logVars, interrupted, learning_mode, cwd, user_input, commands,
                   explanation, idx, mode, inflight, path_execs, executed,
                   lines_read, intr_in_read, line_kind, answers, ran, kind, raw,
                   tip, err, asks, eof_seen, mark, scenario, new_provider>>

\* setup_provider, OpenRouter: the key is accepted and put in os.environ, then
\* input("Enter model ...")
ProviderOpenrouterKey ==
    /\ pc = "provider_key"
    /\ new_provider = "openrouter"
    /\ \E key \in ApiKeys :
        /\ strip(key) # <<>>
        /\ confirm' = strip(key)
        /\ environ' = [environ EXCEPT !["openrouter"] = strip(key)]
    /\ pc' = "provider_model"
    /\ UNCHANGED <<logVars, interrupted, learning_mode, cwd, user_input, commands,
                   explanation, idx, mode, inflight, path_execs, executed, lines_read,
                   intr_in_read, line_kind, answers, ran, kind, raw, tip, err, asks,
                   shown, eof_seen, mark, scenario, provider, openrouter_model,
                   client, env_file, new_provider>>

\* setup_provider, OpenRouter: new_model = model_input or the default, and the
\* switch is made
ProviderModel ==
    /\ pc = "provider_model"
    /\ \E m \in ModelInputs :
        Switched("openrouter", IF strip(m) # <<>> THEN strip(m) ELSE DEFAULT_MODEL, environ)
    /\ UNCHANGED <<logVars, interrupted, learning_mode, cwd, user_input, commands,
                   explanation, idx, mode, inflight, path_execs, executed,
                   lines_read, intr_in_read, line_kind, answers, ran, kind, raw,
                   tip, err, confirm, asks, eof_seen, mark, scenario, environ,
                   new_provider>>

\* a bare "!": cmd is empty, continue
ReadBang ==
    /\ Reading
    /\ \E line \in TypedLines : Took(line, "bang")
    /\ pc' = "top"
    /\ UNCHANGED <<logVars, interrupted, learning_mode, cwd, commands, explanation, idx,
                   mode, inflight, path_execs, executed, intr_in_read, answers, ran, raw,
                   tip, err, confirm, asks, shown, eof_seen, mark, scenario, provVars>>

\* "!<cmd>": _handle_force_run(user_input[1:]) calls run
ReadForce ==
    /\ Reading
    /\ \E line \in TypedLines :
        /\ Took(line, "force")
        /\ inflight' = ForceCmd(strip(line))
    /\ mode' = "force"
    /\ pc' = "running"
    /\ UNCHANGED <<logVars, interrupted, learning_mode, cwd, commands, explanation, idx,
                   path_execs, executed, intr_in_read, answers, ran, raw, tip, err,
                   confirm, asks, shown, eof_seen, mark, scenario, provVars>>

\* kind == "shell": run(user_input)
ReadShell ==
    /\ Reading
    /\ \E line \in TypedLines :
        /\ Classified(line, TRUE)
        /\ inflight' = strip(line)
    /\ mode' = "shell"
    /\ pc' = "running"
    /\ UNCHANGED <<logVars, interrupted, learning_mode, cwd, commands, explanation, idx,
                   path_execs, executed, intr_in_read, answers, ran, raw, tip, err,
                   confirm, asks, shown, eof_seen, mark, scenario, provVars>>

\* otherwise translate(...): render the digest, build the prompt, call ask_ai
ReadNatural ==
    /\ Reading
    /\ \E line \in TypedLines : Classified(line, FALSE)
    /\ session_context' = render_context(session_log)
    /\ pc' = "asking"
    /\ UNCHANGED <<session_log, capacity, token_budget, recorded, interrupted,
                   learning_mode, cwd, commands, explanation, idx, mode, inflight,
                   path_execs, executed, intr_in_read, answers, ran, raw, tip, err,
                   confirm, asks, shown, eof_seen, mark, scenario, provVars>>

\* mutant: a plan of several commands handed to _exec_single
Dispatch_NoMulti(cmds) ==
    /\ pc' = IF cmds = <<>> THEN "top" ELSE "confirm_single"
    /\ shown' = IF cmds = <<>> THEN "cannot_translate" ELSE shown

\* main after translate returns: no command, one command, several
Dispatch(cmds) ==
    /\ pc' = IF cmds = <<>> THEN "top"
             ELSE IF Len(cmds) = 1 THEN "confirm_single"
             ELSE "confirm_multi"
    /\ shown' = IF cmds = <<>> THEN "cannot_translate" ELSE shown

\* a mutant of WantsTip: the tip is asked for whatever the command list is
WantsTip_Always(lm, cmds) == lm

\* translate: if learning_mode and commands
WantsTip(lm, cmds) == lm /\ cmds # <<>>

\* translate: raw = ask_ai_fn(prompt) returns
AskReply ==
    /\ pc = "asking"
    /\ \E reply \in Replies :
        /\ raw' = reply
        /\ commands' = ParseCommands(reply)
        /\ IF WantsTip(learning_mode, ParseCommands(reply))
           THEN pc' = "asking_tip" /\ shown' = shown
           ELSE Dispatch(ParseCommands(reply))
    /\ asks' = asks + 1
    /\ UNCHANGED <<logVars, interrupted, learning_mode, cwd, user_input, explanation, idx,
                   mode, inflight, path_execs, executed, lines_read, intr_in_read,
                   line_kind, answers, ran, kind, tip, err, confirm, eof_seen, mark,
                   scenario, provVars>>

\* translate: ask_ai_fn(prompt) raises; main's except Exception prints and loops
AskRaise ==
    /\ pc = "asking"
    /\ asks' = asks + 1
    /\ \E e \in ErrTexts : Caught(e)
    /\ UNCHANGED <<logVars, interrupted, learning_mode, cwd, user_input, commands,
                   explanation, idx, mode, inflight, path_execs, executed, lines_read,
                   intr_in_read, line_kind, answers, ran, kind, raw, tip, confirm,
                   eof_seen, mark, scenario, provVars>>

\* translate: tip = ask_ai_fn(tip_prompt) returns
TipReply ==
    /\ pc = "asking_tip"
    /\ \E reply \in Tips :
        /\ tip' = reply
        /\ explanation' = IF reply # Absent /\ reply # <<>> THEN reply ELSE None
    /\ asks' = asks + 1
    /\ Dispatch(commands)
    /\ UNCHANGED <<logVars, interrupted, learning_mode, cwd, user_input, commands, idx,
                   mode, inflight, path_execs, executed, lines_read, intr_in_read,
                   line_kind, answers, ran, kind, raw, err, confirm, eof_seen, mark,
                   scenario, provVars>>

\* translate: ask_ai_fn(tip_prompt) raises; except Exception: pass
TipRaise ==
    /\ pc = "asking_tip"
    /\ tip' = Raised
    /\ asks' = asks + 1
    /\ Dispatch(commands)
    /\ UNCHANGED <<logVars, interrupted, learning_mode, cwd, user_input, commands,
                   explanation, idx, mode, inflight, path_execs, executed, lines_read,
                   intr_in_read, line_kind, answers, ran, kind, raw, err, confirm,
                   eof_seen, mark, scenario, provVars>>

\* EOFError out of the input() of _exec_single, _exec_multi, _run_stepping,
\* uninstall or self_update
PromptEOF ==
    /\ pc \in {"confirm_single", "confirm_multi", "step", "confirm_uninstall",
              "confirm_restart", "confirm_restore", "provider_choice", "provider_key",
              "provider_model"}
    /\ pc' = "exit"
    /\ eof_seen' = TRUE
    /\ UNCHANGED <<logVars, interrupted, learning_mode, cwd, user_input, commands,
                   explanation, idx, mode, inflight, path_execs, executed, lines_read,
                   intr_in_read, line_kind, answers, ran, kind, raw, tip, err, confirm,
                   asks, shown, mark, scenario, provVars>>

\* a mutant of SingleConfirms: y confirms as well
SingleConfirms_AlsoY(answer) == answer \in {<<>>, S_y}

\* _exec_single: the answers that do not return at `if confirm != "": return`
SingleConfirms(answer) == answer = <<>>

\* _exec_single: if confirm != "": return
SingleCancel ==
    /\ pc = "confirm_single"
    /\ \E answer \in SingleAnswers : ~SingleConfirms(answer) /\ confirm' = answer
    /\ pc' = "top"
    /\ UNCHANGED <<logVars, interrupted, learning_mode, cwd, user_input, commands,
                   explanation, idx, mode, inflight, path_execs, executed, lines_read,
                   intr_in_read, line_kind, answers, ran, kind, raw, tip, err, asks,
                   shown, eof_seen, mark, scenario, provVars>>

\* _exec_single: if command.startswith("cd "): _handle_cd(command[3:]); return
SingleCd ==
    /\ pc = "confirm_single"
    /\ \E answer \in SingleAnswers : SingleConfirms(answer) /\ confirm' = answer
    /\ startswith(commands[1], S_cd_sp)
    /\ \E ok \in BOOLEAN :
        /\ cwd' = IF ok THEN CdTarget(DropFirst(commands[1], 3)) ELSE cwd
        /\ executed' = Append(executed,
                              Executed(commands[1], IF ok THEN 0 ELSE 1, "chdir"))
    /\ mode' = "single"
    /\ pc' = "top"
    /\ UNCHANGED <<logVars, interrupted, learning_mode, user_input, commands, explanation,
                   idx, inflight, path_execs, lines_read, intr_in_read, line_kind,
                   answers, ran, kind, raw, tip, err, asks, shown, eof_seen, mark,
                   scenario, provVars>>

\* _exec_single: run(command)
SingleRun ==
    /\ pc = "confirm_single"
    /\ \E answer \in SingleAnswers : SingleConfirms(answer) /\ confirm' = answer
    /\ ~startswith(commands[1], S_cd_sp)
    /\ inflight' = commands[1]
    /\ mode' = "single"
    /\ pc' = "running"
    /\ UNCHANGED <<logVars, interrupted, learning_mode, cwd, user_input, commands,
                   explanation, idx, path_execs, executed, lines_read, intr_in_read,
                   line_kind, answers, ran, kind, raw, tip, err, asks, shown, eof_seen,
                   mark, scenario, provVars>>

\* _exec_multi: confirm in ("y", "yes", ""): _run_sequence(commands)
MultiRunAll ==
    /\ pc = "confirm_multi"
    /\ \E answer \in MultiChoices :
        lower(strip(answer)) \in YES /\ confirm' = lower(strip(answer))
    /\ mode' = "seq"
    /\ idx' = 1
    /\ pc' = "seq"
    /\ UNCHANGED <<logVars, interrupted, learning_mode, cwd, user_input, commands,
                   explanation, inflight, path_execs, executed, lines_read, intr_in_read,
                   line_kind, answers, ran, kind, raw, tip, err, asks, shown, eof_seen,
                   mark, scenario, provVars>>

\* _exec_multi: confirm == "step": _run_stepping(commands)
MultiStep ==
    /\ pc = "confirm_multi"
    /\ \E answer \in MultiChoices :
        lower(strip(answer)) = S_step /\ confirm' = lower(strip(answer))
    /\ mode' = "step"
    /\ idx' = 1
    /\ pc' = "step"
    /\ UNCHANGED <<logVars, interrupted, learning_mode, cwd, user_input, commands,
                   explanation, inflight, path_execs, executed, lines_read, intr_in_read,
                   line_kind, answers, ran, kind, raw, tip, err, asks, shown, eof_seen,
                   mark, scenario, provVars>>

\* _exec_multi: any other answer prints "Cancelled"
MultiCancel ==
    /\ pc = "confirm_multi"
    /\ \E answer \in MultiChoices :
        lower(strip(answer)) \notin (YES \cup {S_step}) /\ confirm' = lower(strip(answer))
    /\ pc' = "top"
    /\ UNCHANGED <<logVars, interrupted, learning_mode, cwd, user_input, commands,
                   explanation, idx, mode, inflight, path_execs, executed, lines_read,
                   intr_in_read, line_kind, answers, ran, kind, raw, tip, err, asks,
                   shown, eof_seen, mark, scenario, provVars>>

\* stdout + stderr of a finished run
Output(r) == r.stdout \o r.stderr

\* a mutant of FinishDirect: run returns and the record call is left out
FinishDirect_NoRecord ==
    /\ pc = "running"
    /\ mode \in {"force", "shell", "single"}
    /\ \E proc \in ProcResults :
        executed' = Append(executed, Executed(inflight, run(inflight, proc).rc, "run"))
    /\ inflight' = None
    /\ pc' = "top"
    /\ UNCHANGED <<logVars, interrupted, learning_mode, cwd, user_input, commands,
                   explanation, idx, mode, path_execs, lines_read, intr_in_read,
                   line_kind, answers, ran, kind, raw, tip, err, confirm, asks, shown,
                   eof_seen, mark, scenario, provVars>>

\* _handle_force_run, main (kind == "shell") and _exec_single, after run returns:
\* session_log.record(cmd, stdout + stderr, rc)
FinishDirect ==
    /\ pc = "running"
    /\ mode \in {"force", "shell", "single"}
    /\ \E proc \in ProcResults :
        LET r == run(inflight, proc)
        IN  /\ session_log' = record(session_log, capacity, token_budget,
                                     inflight, Output(r), r.rc)
            /\ recorded' = Append(recorded, RecordedTriple(inflight, Output(r), r.rc))
            /\ executed' = Append(executed, Executed(inflight, r.rc, "run"))
    /\ inflight' = None
    /\ pc' = "top"
    /\ UNCHANGED <<capacity, token_budget, session_context, interrupted, learning_mode,
                   cwd, user_input, commands, explanation, idx, mode, path_execs,
                   lines_read, intr_in_read, line_kind, answers, ran, kind, raw, tip, err,
                   confirm, asks, shown, eof_seen, mark, scenario, provVars>>

\* _run_sequence: the for loop is exhausted
SeqDone ==
    /\ pc = "seq"
    /\ idx > Len(commands)
    /\ pc' = "top"
    /\ UNCHANGED <<logVars, interrupted, learning_mode, cwd, user_input, commands,
                   explanation, idx, mode, inflight, path_execs, executed, lines_read,
                   intr_in_read, line_kind, answers, ran, kind, raw, tip, err, confirm,
                   asks, shown, eof_seen, mark, scenario, provVars>>

\* _run_sequence: cmd.startswith("cd "): os.chdir; on an exception break
SeqCd ==
    /\ pc = "seq"
    /\ idx <= Len(commands)
    /\ startswith(commands[idx], S_cd_sp)
    /\ \E ok \in BOOLEAN :
        /\ cwd' = IF ok THEN StepCdTarget(commands[idx]) ELSE cwd
        /\ executed' = Append(executed,
                              Executed(commands[idx], IF ok THEN 0 ELSE 1, "chdir"))
        /\ ran' = Append(ran, [i |-> idx, rc |-> IF ok THEN 0 ELSE 1])
        /\ IF ok THEN pc' = "seq" /\ idx' = idx + 1
                 ELSE pc' = "top" /\ idx' = idx
    /\ UNCHANGED <<logVars, interrupted, learning_mode, user_input, commands, explanation,
                   mode, inflight, path_execs, lines_read, intr_in_read, line_kind,
                   answers, kind, raw, tip, err, confirm, asks, shown, eof_seen, mark,
                   scenario, provVars>>

\* _run_sequence: run(cmd)
SeqRun ==
    /\ pc = "seq"
    /\ idx <= Len(commands)
    /\ ~startswith(commands[idx], S_cd_sp)
    /\ inflight' = commands[idx]
    /\ pc' = "running"
    /\ UNCHANGED <<logVars, interrupted, learning_mode, cwd, user_input, commands,
                   explanation, idx, mode, path_execs, executed, lines_read, intr_in_read,
                   line_kind, answers, ran, kind, raw, tip, err, confirm, asks, shown,
                   eof_seen, mark, scenario, provVars>>

\* mutant: the break after a failing command left out
SeqStopsOn_Never(rc) == FALSE

\* _run_sequence after run returns: record(cmd, stdout + stderr, rc);
\* if rc != 0: break
SeqStopsOn(rc) == rc # 0

FinishSeq ==
    /\ pc = "running"
    /\ mode = "seq"
    /\ \E proc \in ProcResults :
        LET r == run(inflight, proc)
        IN  /\ session_log' = record(session_log, capacity, token_budget,
                                     inflight, Output(r), r.rc)
            /\ recorded' = Append(recorded, RecordedTriple(inflight, Output(r), r.rc))
            /\ executed' = Append(executed, Executed(inflight, r.rc, "run"))
            /\ ran' = Append(ran, [i |-> idx, rc |-> r.rc])
            /\ IF SeqStopsOn(r.rc) THEN pc' = "top" /\ idx' = idx
                                   ELSE pc' = "seq" /\ idx' = idx + 1
    /\ inflight' = None
    /\ UNCHANGED <<capacity, token_budget, session_context, interrupted, learning_mode,
                   cwd, user_input, commands, explanation, mode, path_execs, lines_read,
                   intr_in_read, line_kind, answers, kind, raw, tip, err, confirm, asks,
                   shown, eof_seen, mark, scenario, provVars>>

\* input(...).strip().lower() in _run_stepping
StepChoice(answer) == lower(strip(answer))

\* a choice, and how many record calls had been made when it was given
Answered(choice) == [choice |-> choice, logged |-> Len(recorded)]

\* mutant: only a literal y carries the command out
StepRuns_OnlyY(choice) == choice = S_y

\* whether _run_stepping carries the command out on this choice
StepRuns(choice) == choice \in YES

\* mutant: q taken for a skip
StepBreaks_Never(choice) == FALSE

\* whether _run_stepping breaks on this choice
StepBreaks(choice) == choice = S_q

\* _run_stepping: on to the next command, or out of the loop after the last
StepAdvance ==
    /\ idx' = idx + 1
    /\ pc' = IF idx + 1 > Len(commands) THEN "top" ELSE "step"

\* _run_stepping: choice in ("y", "yes", ""), cmd.startswith("cd "): os.chdir
StepCd ==
    /\ pc = "step"
    /\ startswith(commands[idx], S_cd_sp)
    /\ \E answer \in StepAnswers, ok \in BOOLEAN :
        /\ StepRuns(StepChoice(answer))
        /\ answers' = Append(answers, Answered(StepChoice(answer)))
        /\ cwd' = IF ok THEN StepCdTarget(commands[idx]) ELSE cwd
        /\ executed' = Append(executed,
                              Executed(commands[idx], IF ok THEN 0 ELSE 1, "chdir"))
        /\ ran' = Append(ran, [i |-> idx, rc |-> IF ok THEN 0 ELSE 1])
    /\ StepAdvance
    /\ UNCHANGED <<logVars, interrupted, learning_mode, user_input, commands, explanation,
                   mode, inflight, path_execs, lines_read, intr_in_read, line_kind, kind,
                   raw, tip, err, confirm, asks, shown, eof_seen, mark, scenario, provVars>>

\* _run_stepping: choice in ("y", "yes", ""): run(cmd)
StepRun ==
    /\ pc = "step"
    /\ ~startswith(commands[idx], S_cd_sp)
    /\ \E answer \in StepAnswers :
        /\ StepRuns(StepChoice(answer))
        /\ answers' = Append(answers, Answered(StepChoice(answer)))
    /\ inflight' = commands[idx]
    /\ pc' = "running"
    /\ UNCHANGED <<logVars, interrupted, learning_mode, cwd, user_input, commands,
                   explanation, idx, mode, path_execs, executed, lines_read, intr_in_read,
                   line_kind, ran, kind, raw, tip, err, confirm, asks, shown, eof_seen,
                   mark, scenario, provVars>>

\* _run_stepping: choice == "q": break
StepQuit ==
    /\ pc = "step"
    /\ \E answer \in StepAnswers :
        /\ ~StepRuns(StepChoice(answer))
        /\ StepBreaks(StepChoice(answer))
        /\ answers' = Append(answers, Answered(StepChoice(answer)))
    /\ pc' = "top"
    /\ UNCHANGED <<logVars, interrupted, learning_mode, cwd, user_input, commands,
                   explanation, idx, mode, inflight, path_execs, executed, lines_read,
                   intr_in_read, line_kind, ran, kind, raw, tip, err, confirm, asks,
                   shown, eof_seen, mark, scenario, provVars>>

\* _run_stepping: any other choice skips the command
StepSkip ==
    /\ pc = "step"
    /\ \E answer \in StepAnswers :
        /\ ~StepRuns(StepChoice(answer))
        /\ ~StepBreaks(StepChoice(answer))
        /\ answers' = Append(answers, Answered(StepChoice(answer)))
    /\ StepAdvance
    /\ UNCHANGED <<logVars, interrupted, learning_mode, cwd, user_input, commands,
                   explanation, mode, inflight, path_execs, executed, lines_read,
                   intr_in_read, line_kind, ran, kind, raw, tip, err, confirm, asks,
                   shown, eof_seen, mark, scenario, provVars>>

\* _run_stepping after run returns: stdout, stderr, _ = run(cmd);
\* session_log.record(cmd, stdout + stderr)
FinishStep ==
    /\ pc = "running"
    /\ mode = "step"
    /\ \E proc \in ProcResults :
        LET r == run(inflight, proc)
        IN  /\ session_log' = record(session_log, capacity, token_budget,
                                     inflight, Output(r), DEFAULT_EXIT_CODE)
            /\ recorded' = Append(recorded,
                                  RecordedTriple(inflight, Output(r), DEFAULT_EXIT_CODE))
            /\ executed' = Append(executed, Executed(inflight, r.rc, "run"))
            /\ ran' = Append(ran, [i |-> idx, rc |-> r.rc])
    /\ inflight' = None
    /\ StepAdvance
    /\ UNCHANGED <<capacity, token_budget, session_context, interrupted, learning_mode,
                   cwd, user_input, commands, explanation, mode, path_execs, lines_read,
                   intr_in_read, line_kind, answers, kind, raw, tip, err, confirm, asks,
                   shown, eof_seen, mark, scenario, provVars>>

Next ==
    \/ SigInt \/ ClearInterrupt \/ Prompt
    \/ ReadEOF \/ ReadBlank \/ ReadExit \/ ReadCd \/ ReadBuiltin \/ ReadBang
    \/ ReadUninstall \/ UninstallCancel \/ UninstallExit \/ UninstallRaise
    \/ ReadUpdate \/ UpdateReturn \/ UpdateDone \/ UpdateFail \/ RestartYes
    \/ UpdateAnswered
    \/ ReadProvider \/ ProviderChoice \/ ProviderFail \/ ProviderGemini
    \/ ProviderOpenrouterKey \/ ProviderModel
    \/ ReadForce \/ ReadShell \/ ReadNatural
    \/ AskReply \/ AskRaise \/ TipReply \/ TipRaise
    \/ PromptEOF
    \/ SingleCancel \/ SingleCd \/ SingleRun
    \/ MultiRunAll \/ MultiStep \/ MultiCancel
    \/ SeqDone \/ SeqCd \/ SeqRun \/ FinishSeq
    \/ StepCd \/ StepRun \/ StepQuit \/ StepSkip \/ FinishStep
    \/ FinishDirect

Spec == Init /\ [][Next]_vars

-----------------------------------------------------------------------------
(* SpecClassify: one call of classify_input, for every text of up to       *)
(* MaxWords words and every search path                                    *)

\* " ".join(parts)
RECURSIVE JoinWords(_)
JoinWords(parts) ==
    IF parts = <<>> THEN <<>>
    ELSE IF Len(parts) = 1 THEN parts[1]
    ELSE parts[1] \o <<" ">> \o JoinWords(Tail(parts))

S_what == <<"w", "h", "a", "t">>
S_how == <<"h", "o", "w">>

\* the words the texts are made of: a name on the search path, two stop-words
\* (one capitalised), a path, an operator and a plain word
ClassifyWords == { S_ls, S_what, <<"T", "h", "e">>, <<"/", "x">>, <<"a", "|", "b">>, <<"f", "i", "l", "e", "s">> }

\* texts no sequence of those words gives
ClassifyExamples ==
    { <<>>, <<" ", " ">>, S_exit, S_quit, S_bang, S_learn, S_cd,
      <<"E", "x", "i", "t">>, <<"c", "d", " ", "/", "t", "m", "p">>, <<"c", "d", " ", "i", "s", " ", "i", "t", "?">>, <<"c", "d", "x">>,
      <<"l", "s", " ", "-", "l", "a">>, <<" ", "l", "s", " ">>, <<"$", "V">>, <<".", "/", "x">>,
      <<"w", "h", "a", "t", " ", "i", "s", " ", "m", "y", " ", "i", "p", " ", "a", "d", "d", "r", "e", "s", "s">>,
      <<"h", "o", "w", " ", "d", "o", " ", "I", " ", "l", "i", "s", "t", " ", "f", "i", "l", "e", "s", "?">>,
      <<"~", "/", "x", " ", "a", " ", "b", " ", "c">>, <<"=", "a", " ", "l", "s">>, <<"a", " ", ">", ">", " ", "b">>, <<"x", " ", ">", " ", "y", " ", ">", ">", " ", "z", "?">>,
      <<"1", "2", "3">>, <<"A", "=", "1", " ", "B", "=", "2">>,
      <<"i", "s">>, <<">">>, <<">", " ", "f">>, <<"l", "s", " ", ">", " ", "f">>, <<"x", " ", ">", " ", "y", " ", "z", " ", "w">>,
      <<"A", "=", "1">>, <<"A", "=", "1", " ", "l", "s">>, <<"A", "=", "1", " ", "w", "h", "a", "t", " ", "i", "s", " ", "i", "t">>, <<"l", "s", " ", "i", "s">>,
      <<"l", "s", "?">>, <<"l", "s", " ", "|", " ", "f", "?">>, <<"/", "x", " ", "f", "?">>, <<"f", "i", "l", "e", "s", "?">>, <<"l", "s", " ", "a", " ", "b", " ", "c", "?">>,
      <<"x", " ", ARROW, " ", ">", " ", "y">>, <<BACKTICK, "l", "s", BACKTICK>> }

ClassifyTexts ==
    ClassifyExamples \cup
    { JoinWords(parts) : parts \in UNION { [1..n -> ClassifyWords] : n \in 1..MaxWords } }

\* what shutil.which finds: nothing, ls, or ls and two stop-words
ClassifyPaths == { {}, {S_ls}, {S_ls, S_what, S_how} }

\* main is about to call classify_input(user_input)
InitClassify ==
    /\ capacity = SESSION_CAPACITY
    /\ token_budget = TOKEN_BUDGET
    /\ session_log = <<>>
    /\ session_context = None
    /\ recorded = <<>>
    /\ pc = "classifying"
    /\ interrupted = FALSE
    /\ learning_mode = FALSE
    /\ cwd = START_DIR
    /\ user_input \in ClassifyTexts
    /\ commands = <<>>
    /\ explanation = None
    /\ idx = 0
    /\ mode = None
    /\ inflight = None
    /\ path_execs \in ClassifyPaths
    /\ executed = <<>>
    /\ lines_read = 1
    /\ intr_in_read = FALSE
    /\ line_kind = None
    /\ answers = <<>>
    /\ ran = <<>>
    /\ kind = None
    /\ raw = Absent
    /\ tip = Absent
    /\ err = Absent
    /\ confirm = Absent
    /\ asks = 0
    /\ shown = None
    /\ eof_seen = FALSE
    /\ scenario = "classify"
    /\ InitProvider
    /\ mark = Seen

\* kind = classify_input(user_input)
Classify ==
    /\ pc = "classifying"
    /\ kind' = classify_input(user_input, path_execs)
    /\ pc' = "classified"
    /\ UNCHANGED <<logVars, interrupted, learning_mode, cwd, user_input, commands,
                   explanation, idx, mode, inflight, path_execs, executed, lines_read,
                   intr_in_read, line_kind, answers, ran, raw, tip, err, confirm, asks,
                   shown, eof_seen, mark, scenario, provVars>>

NextClassify == Classify

SpecClassify == InitClassify /\ [][NextClassify]_vars

-----------------------------------------------------------------------------
(* SpecTranslate: one call of translate, for every reply of the two asks   *)

\* translate has been called with an empty log's digest and is in its first ask
InitTranslate ==
    /\ capacity = SESSION_CAPACITY
    /\ token_budget = TOKEN_BUDGET
    /\ session_log = <<>>
    /\ session_context = render_context(<<>>)
    /\ recorded = <<>>
    /\ pc = "asking"
    /\ interrupted = FALSE
    /\ learning_mode \in BOOLEAN
    /\ cwd = START_DIR
    /\ user_input = <<"w", "h", "a", "t", " ", "i", "s", " ", "i", "t">>
    /\ commands = <<>>
    /\ explanation = None
    /\ idx = 0
    /\ mode = None
    /\ inflight = None
    /\ path_execs \in PathConfigs
    /\ executed = <<>>
    /\ lines_read = 1
    /\ intr_in_read = FALSE
    /\ line_kind = "natural"
    /\ answers = <<>>
    /\ ran = <<>>
    /\ kind = "natural"
    /\ raw = Absent
    /\ tip = Absent
    /\ err = Absent
    /\ confirm = Absent
    /\ asks = 0
    /\ shown = None
    /\ eof_seen = FALSE
    /\ scenario = "translate"
    /\ InitProvider
    /\ mark = Seen

NextTranslate == AskReply \/ AskRaise \/ TipReply \/ TipRaise

SpecTranslate == InitTranslate /\ [][NextTranslate]_vars

-----------------------------------------------------------------------------
(* Claims about SessionLog.record, checked under SpecLog *)

\* C3: after every call in any sequence of record calls, the number of
\* entries is at most capacity.
C3_LenAtMostCapacity == Len(session_log) <= capacity

\* a full log has dropped at least one entry for capacity
C3_Witness ==
    /\ capacity >= 1
    /\ Len(recorded) > capacity
    /\ Len(session_log) = capacity

\* the combined character length, summed independently of TotalChars
C4_Sum(entries) ==
    LET f[i \in 0..Len(entries)] ==
            IF i = 0 THEN 0
            ELSE f[i - 1] + Len(entries[i].cmd) + Len(entries[i].output)
    IN  f[Len(entries)]

\* C4: after every record call, a log holding more than one entry has a
\* combined len(cmd)+len(output) of at most token_budget; a log holding a
\* single entry may exceed the budget and keeps that entry.
C4_BudgetWhenSeveral ==
    /\ Len(session_log) > 1 => C4_Sum(session_log) <= token_budget
    /\ (capacity >= 1 /\ recorded # <<>>) => Len(session_log) >= 1

\* budget eviction has emptied the log down to one entry that is itself
\* over the budget
C4_Witness ==
    /\ capacity >= 2
    /\ Len(recorded) >= 2
    /\ Len(session_log) = 1
    /\ C4_Sum(session_log) > token_budget

\* C5: eviction is oldest-first: the entries are a contiguous suffix, in
\* recording order, of all recorded (cmd, output[:600], exit_code) triples,
\* and with capacity >= 1 the most recently recorded entry is the last entry.
C5_FifoSuffix ==
    /\ \E k \in 0..Len(recorded) :
            session_log = SubSeq(recorded, k + 1, Len(recorded))
    /\ (capacity >= 1 /\ recorded # <<>>) =>
            /\ session_log # <<>>
            /\ session_log[Len(session_log)] = recorded[Len(recorded)]

\* entries were evicted, an output was truncated, and more than one survives
C5_Witness ==
    /\ Len(session_log) >= 2
    /\ Len(session_log) < Len(recorded)
    /\ \E i \in 1..Len(session_log) : Len(session_log[i].output) = OUTPUT_LIMIT

-----------------------------------------------------------------------------
(* Claims about SessionLog.render_context, checked under SpecRender *)

\* the lines of a digest: the pieces between its line breaks
C6_Split(digest) ==
    LET breaks == {i \in 1..Len(digest) : digest[i] = "\n"}
        cuts == breaks \cup {0, Len(digest) + 1}
        Nth(k) == CHOOSE i \in cuts : Cardinality({j \in cuts : j < i}) = k
    IN  [k \in 1..(Cardinality(cuts) - 1) |-> SubSeq(digest, Nth(k - 1) + 1, Nth(k) - 1)]

\* status lines start with "[", output lines with the indent
C6_IsStatus(line) == Len(line) >= 6 /\ line[1] = "["

C6_Contains(s, piece) ==
    \E i \in 0..(Len(s) - Len(piece)) : SubSeq(s, i + 1, i + Len(piece)) = piece

\* C6: render_context on an empty log returns "(no previous commands)"; on
\* a non-empty log it emits one status line for each of the last
\* min(6, len) entries, in chronological order, each followed by at most 3
\* output lines of that entry.
C6_RenderShape ==
    session_context # None =>
        IF session_log = <<>> THEN session_context = NO_PREVIOUS
        ELSE
            LET lines == C6_Split(session_context)
                n == Len(session_log)
                m == IF n < 6 THEN n ELSE 6
                status == {i \in 1..Len(lines) : C6_IsStatus(lines[i])}
                Nth(k) == IF k > Cardinality(status) THEN Len(lines) + 1
                          ELSE CHOOSE i \in status :
                                  Cardinality({j \in status : j < i}) = k - 1
            IN  /\ Cardinality(status) = m
                /\ 1 \in status
                /\ \A k \in 1..m :
                     LET e == session_log[n - m + k]
                         i == Nth(k)
                         nxt == Nth(k + 1)
                     IN  /\ lines[i] =
                                <<"[", IF e.exit_code = 0 THEN "check" ELSE "cross", "]",
                                  " ", "$", " ">> \o e.cmd
                         /\ nxt - i - 1 <= 3
                         /\ \A j \in (i + 1)..(nxt - 1) :
                                /\ Len(lines[j]) >= 4
                                /\ SubSeq(lines[j], 1, 4) = <<" ", " ", " ", " ">>
                                /\ C6_Contains(e.output, SubSeq(lines[j], 5, Len(lines[j])))

\* a digest of a log of more than 6 entries whose last entry has more than
\* 3 output lines
C6_Witness ==
    /\ session_context # None
    /\ Len(session_log) > 6
    /\ session_log[Len(session_log)].output = S_out5
    /\ session_log[Len(session_log) - 1].output = <<>>

-----------------------------------------------------------------------------
(* Claims about the REPL, checked under Spec *)

\* C1: every command the dispatcher carries out, in every mode (typed shell
\* input, !<cmd>, single-confirm, sequential, stepping, cd commands handled
\* by os.chdir included), causes exactly one record call for that command
\* after it has run.
C1_EveryExecutedRecorded ==
    /\ Len(recorded) = Len(executed)
    /\ \A k \in 1..Len(executed) : recorded[k].cmd = executed[k].cmd

\* the executions that went through run()
C2_Runs == SelectSeq(executed, LAMBDA e : e.via = "run")

\* C2: for every command executed through run(), in any mode, the exit_code
\* of its HistoryEntry is the exit code run() returned, so that
\* render_context marks it failed exactly when it exited non-zero.
C2_ExitCodeStored ==
    /\ Len(recorded) = Len(C2_Runs)
    /\ \A k \in 1..Len(C2_Runs) : recorded[k].exit_code = C2_Runs[k].rc
    /\ \A k \in 1..Len(session_log) :
          LET r == C2_Runs[Len(C2_Runs) - Len(session_log) + k]
          IN  (StatusLine(session_log[k])[2] = "cross") <=> (r.rc # 0)

\* C7: in sequential mode the commands are carried out in list order, and
\* the ones carried out are exactly the prefix up to and including the first
\* that fails (a non-zero exit code, or for a cd step an os.chdir that
\* raises); the whole list if none fails.
C7_SequentialPrefix ==
    mode = "seq" =>
        /\ Len(ran) <= Len(commands)
        /\ Len(ran) <= Len(executed)
        /\ \A k \in 1..Len(ran) :
              /\ ran[k].i = k
              /\ executed[Len(executed) - Len(ran) + k].cmd = commands[k]
              /\ executed[Len(executed) - Len(ran) + k].rc = ran[k].rc
        /\ \A k \in 1..(Len(ran) - 1) : ran[k].rc = 0
        /\ pc = "top" =>
              \/ Len(ran) = Len(commands)
              \/ Len(ran) >= 1 /\ ran[Len(ran)].rc # 0

\* a three-command sequence has stopped at its second command, which a
\* spawned shell ran and which exited non-zero
C7_Witness ==
    /\ mode = "seq"
    /\ pc = "top"
    /\ Len(commands) = 3
    /\ Len(ran) = 2
    /\ ran[2].rc # 0
    /\ executed[Len(executed)].via = "run"

\* the steps of this _run_stepping call that were carried out
C8_RanSteps == {ran[k].i : k \in 1..Len(ran)}

\* the first step answered q, 0 when none was
C8_QuitAt ==
    LET qs == {k \in 1..Len(answers) : answers[k].choice = <<"q">>}
    IN  IF qs = {} THEN 0 ELSE CHOOSE k \in qs : \A j \in qs : k <= j

\* C8 as claimed: once a step is answered q, that command and the remaining
\* ones are never run and no further prompt is issued; only the commands
\* answered y or empty before the q have run.
C8_Original ==
    (mode = "step" /\ C8_QuitAt # 0) =>
        /\ Len(answers) = C8_QuitAt
        /\ pc = "top"
        /\ C8_RanSteps =
              {k \in 1..(C8_QuitAt - 1) : answers[k].choice \in {<<"y">>, <<>>}}

\* C8 as amended: once a step is answered q (after trimming and
\* lower-casing), that command and the remaining ones are never run and no
\* further prompt is issued; only the commands answered y, yes or empty
\* before the q have run.
C8_QuitStops ==
    (mode = "step" /\ C8_QuitAt # 0) =>
        /\ Len(answers) = C8_QuitAt
        /\ pc = "top"
        /\ C8_RanSteps =
              {k \in 1..(C8_QuitAt - 1) :
                  answers[k].choice \in {<<"y">>, <<"y", "e", "s">>, <<>>}}

\* answers y (or yes, or empty), then q, on a three-command list: only the
\* first command has run
C8_Witness ==
    /\ mode = "step"
    /\ Len(commands) = 3
    /\ Len(answers) = 2
    /\ answers[2].choice = <<"q">>
    /\ C8_RanSteps = {1}
    /\ pc = "top"

\* step k of this _run_stepping call was carried out, or is being run
C9_Started(k) == k \in C8_RanSteps \/ (pc = "running" /\ idx = k)

\* record calls made between answer k and the next answer
C9_LoggedBy(k) ==
    (IF k < Len(answers) THEN answers[k + 1].logged ELSE Len(recorded))
        - answers[k].logged

\* a step answered n: not carried out, nothing recorded, on to the next step
C9_Skipped(k) ==
    /\ ~C9_Started(k)
    /\ C9_LoggedBy(k) = 0
    /\ k = Len(answers) =>
          IF k < Len(commands)
          THEN pc \in {"step", "exit"} /\ idx = k + 1
          ELSE pc = "top"

\* C9 as claimed: a step answered n is not executed, makes no SessionLog
\* entry, and stepping goes on to the next command; a command runs exactly
\* when its answer is y or empty and no earlier answer was q, whether or
\* not earlier commands failed.
C9_Original ==
    mode = "step" =>
        \A k \in 1..Len(answers) :
            /\ answers[k].choice = <<"n">> => C9_Skipped(k)
            /\ C9_Started(k) <=>
                  /\ answers[k].choice \in {<<"y">>, <<>>}
                  /\ \A j \in 1..(k - 1) : answers[j].choice # <<"q">>

\* C9 as amended: the same, with a command running exactly when its answer
\* (trimmed, lower-cased) is y, yes or empty and no earlier answer was q.
C9_StepRunsOnYes ==
    mode = "step" =>
        \A k \in 1..Len(answers) :
            /\ answers[k].choice = <<"n">> => C9_Skipped(k)
            /\ C9_Started(k) <=>
                  /\ answers[k].choice \in {<<"y">>, <<"y", "e", "s">>, <<>>}
                  /\ \A j \in 1..(k - 1) : answers[j].choice # <<"q">>

\* answers run, n, run on a three-command list whose first command failed:
\* the first and third have run, the second has not
C9_Witness ==
    /\ mode = "step"
    /\ Len(commands) = 3
    /\ Len(answers) = 3
    /\ answers[2].choice = <<"n">>
    /\ C8_RanSteps = {1, 3}
    /\ ran[1].rc # 0
    /\ pc = "top"

\* C10: if SIGINT fires while the dispatcher is blocked reading a line, the
\* flag is set and the line being entered is not processed (not dispatched
\* as a builtin, not classified, executed or translated); the loop clears
\* the flag at the top of the next iteration and prompts again.
C10_InterruptedLineDropped ==
    intr_in_read =>
        /\ interrupted \/ pc = "top"
        /\ line_kind \notin {"cd", "builtin", "force", "shell", "natural"}

\* C11 as claimed: the dispatcher reaches Exit only by reading the line exit
\* or quit or by an end-of-input signal.
C11_Original ==
    pc = "exit" => (eof_seen \/ (user_input # None /\ user_input \in {S_exit, S_quit}))

\* C11 as amended: the dispatcher reaches Exit only by reading the line exit
\* or quit, by an end-of-input signal, by a !uninstall confirmed with y
\* (sys.exit) or by a !update whose restart prompt is answered y (os.execv);
\* no other builtin, no failed execution or translation, no interrupt and no
\* exception of a collaborator ends the loop.
C11_ExitCauses ==
    pc = "exit" =>
        \/ eof_seen
        \/ /\ user_input # None
           /\ \/ user_input \in {S_exit, S_quit}
              \/ /\ user_input = S_uninstall
                 /\ confirm # Absent
                 /\ lower(confirm) = S_y
              \/ /\ user_input = S_update
                 /\ confirm # Absent
                 /\ lower(strip(confirm)) = S_y

\* the loop has ended on a confirmed !uninstall, with no end of input
C11_Witness ==
    /\ pc = "exit"
    /\ ~eof_seen
    /\ user_input # None
    /\ user_input = S_uninstall
    /\ confirm # Absent
    /\ confirm = <<"Y">>

\* whether the error text holds 429 or, in any case of letters, quota
C12_RateLimited(e) ==
    \E i \in 1..Len(e) :
        \/ i + 2 <= Len(e) /\ SubSeq(e, i, i + 2) = <<"4", "2", "9">>
        \/ i + 4 <= Len(e) /\ lower(SubSeq(e, i, i + 4)) = <<"q", "u", "o", "t", "a">>

\* C12: when ask_ai raises during the first ask of a translation, main's
\* outer handler catches it: no command is executed, the SessionLog, the
\* working directory and the learning flag are as they were when the line
\* was prompted for, the rate-limit message is shown iff the error text
\* holds 429 or quota (in any case), and the loop is back at its top.
C12_FirstAskRaises ==
    (err # Absent /\ line_kind = "natural") =>
        /\ pc = "top"
        /\ asks = 1
        /\ commands = <<>>
        /\ inflight = None
        /\ Len(executed) = mark.executed
        /\ Len(recorded) = mark.recorded
        /\ session_log = mark.session_log
        /\ cwd = mark.cwd
        /\ learning_mode = mark.learning_mode
        /\ (shown = "rate_limit") <=> C12_RateLimited(err)

\* a quota error with a capital Q, caught after an earlier line's command
\* was logged
C12_Witness ==
    /\ err # Absent
    /\ err = <<"Q", "u", "o", "t", "a", " ", "h", "i", "t">>
    /\ line_kind = "natural"
    /\ shown = "rate_limit"
    /\ session_log # <<>>

\* nothing has been carried out or logged since the line was prompted for
C13_NothingRun ==
    /\ inflight = None
    /\ Len(executed) = mark.executed
    /\ Len(recorded) = mark.recorded
    /\ session_log = mark.session_log
    /\ cwd = mark.cwd

\* C13: for a Natural input the number of translated commands decides the
\* path.  None (also when ask returns nothing): nothing is executed and the
\* could-not-translate message is shown.  One: Single-confirm.  Two or more:
\* the multi-step flow, which runs Sequential on y, yes or empty, Stepping
\* on step, and executes nothing on any other answer.
C13_CountDecidesPath ==
    (line_kind = "natural" /\ err = Absent /\ pc \notin {"asking", "asking_tip"}) =>
        /\ raw = Absent => commands = <<>>
        /\ commands = <<>> =>
              pc = "top" /\ shown = "cannot_translate" /\ mode = None /\ C13_NothingRun
        /\ Len(commands) = 1 =>
              /\ mode \in {None, "single"}
              /\ shown = None
              /\ mode = None => (pc \in {"confirm_single", "top", "exit"} /\ C13_NothingRun)
        /\ Len(commands) >= 2 =>
              /\ mode \in {None, "seq", "step"}
              /\ shown = None
              /\ confirm = Absent =>
                    (pc \in {"confirm_multi", "exit"} /\ mode = None /\ C13_NothingRun)
              /\ confirm # Absent =>
                    /\ mode = "seq" <=> confirm \in {<<"y">>, <<"y", "e", "s">>, <<>>}
                    /\ mode = "step" <=> confirm = <<"s", "t", "e", "p">>
                    /\ mode = None => (pc = "top" /\ C13_NothingRun)

\* a three-command plan answered Y has run in sequential mode
C13_Witness ==
    /\ line_kind = "natural"
    /\ Len(commands) = 3
    /\ confirm # Absent
    /\ confirm = <<"y">>
    /\ mode = "seq"
    /\ Len(executed) = mark.executed + 3


\* C14: a line "!" + non-empty text that is no builtin is run through run()
\* exactly once with the text after the "!", without a classify_input call,
\* an ask or a confirmation prompt, and is then recorded; a bare "!" runs
\* nothing and leaves the log as it was.
C14_ForceRunsOnce ==
    /\ line_kind = "force" =>
          /\ Len(user_input) >= 2 /\ user_input[1] = "!" /\ user_input \notin BUILTINS
          /\ kind = None /\ asks = 0 /\ raw = Absent /\ confirm = Absent
          /\ session_context = None
          /\ pc \in {"running", "top"}
          /\ cwd = mark.cwd
          /\ pc = "running" =>
                /\ inflight = SubSeq(user_input, 2, Len(user_input))
                /\ Len(executed) = mark.executed
                /\ Len(recorded) = mark.recorded
                /\ session_log = mark.session_log
          /\ pc = "top" =>
                /\ inflight = None
                /\ Len(executed) = mark.executed + 1
                /\ Len(recorded) = mark.recorded + 1
                /\ LET e == executed[Len(executed)]
                       t == recorded[Len(recorded)]
                   IN  /\ e.via = "run"
                       /\ e.cmd = SubSeq(user_input, 2, Len(user_input))
                       /\ t.cmd = e.cmd
                       /\ t.exit_code = e.rc
                       /\ session_log # <<>>
                       /\ session_log[Len(session_log)].cmd = e.cmd
    /\ line_kind = "bang" =>
          /\ user_input = <<"!">>
          /\ pc = "top"
          /\ inflight = None
          /\ kind = None /\ asks = 0 /\ confirm = Absent
          /\ Len(executed) = mark.executed
          /\ Len(recorded) = mark.recorded
          /\ session_log = mark.session_log

\* "!cd /d" was run as a shell command, not as a directory change, and recorded
C14_Witness ==
    /\ line_kind = "force"
    /\ pc = "top"
    /\ user_input = <<"!", "c", "d", " ", "/", "d">>
    /\ Len(executed) = mark.executed + 1
    /\ executed[Len(executed)].cmd = <<"c", "d", " ", "/", "d">>
    /\ executed[Len(executed)].via = "run"
    /\ cwd = START_DIR


-----------------------------------------------------------------------------
(* Claims about translate, checked under SpecTranslate *)

\* translate has returned its result
C15_Returned == pc \in {"top", "confirm_single", "confirm_multi"} /\ err = Absent

\* C15: translate calls ask once when learning_mode is off or no command
\* came out of the first reply, and twice when learning_mode is on and there
\* is a command; when the second call raises or returns nothing the result
\* has the same commands and no explanation.
C15_AskCount ==
    /\ asks <= 2
    /\ pc = "asking" => asks = 0
    /\ pc = "asking_tip" => (asks = 1 /\ learning_mode /\ commands # <<>>)
    /\ err # Absent => (asks = 1 /\ pc = "top")
    /\ C15_Returned =>
          /\ asks = IF learning_mode /\ commands # <<>> THEN 2 ELSE 1
          /\ commands = ParseCommands(raw)
          /\ asks = 1 => (tip = Absent /\ explanation = None)
          /\ (asks = 2 /\ tip \in {Absent, <<>>, Raised}) => explanation = None
          /\ (asks = 2 /\ tip \notin {Absent, <<>>, Raised}) => explanation = tip

\* the second ask raised after a two-command reply: both commands are
\* returned without an explanation
C15_Witness ==
    /\ C15_Returned
    /\ asks = 2
    /\ tip = Raised
    /\ Len(commands) = 2
    /\ explanation = None
    /\ pc = "confirm_multi"


\* the characters of the reply up to and without its k-th line break, from
\* the character after the line break before: the k-th line of the reply
C16_Breaks(text) == {i \in 1..Len(text) : text[i] = "\n"}
C16_LineStart(text, k) ==
    IF k = 1 THEN 1
    ELSE 1 + CHOOSE i \in C16_Breaks(text) :
                 Cardinality({j \in C16_Breaks(text) : j <= i}) = k - 1
C16_LineEnd(text, k) ==
    IF k > Cardinality(C16_Breaks(text)) THEN Len(text)
    ELSE (CHOOSE i \in C16_Breaks(text) :
              Cardinality({j \in C16_Breaks(text) : j <= i}) = k) - 1
C16_Line(text, k) == SubSeq(text, C16_LineStart(text, k), C16_LineEnd(text, k))

\* a line trimmed: the part from its first to its last non-whitespace character
C16_Trim(line) ==
    LET ink == {i \in 1..Len(line) : line[i] \notin {" ", "\t", "\n"}}
    IN  IF ink = {} THEN <<>>
        ELSE SubSeq(line, CHOOSE i \in ink : \A j \in ink : i <= j,
                          CHOOSE i \in ink : \A j \in ink : j <= i)

\* the numbers of the lines of the reply that are not blank
C16_Kept(text) ==
    {k \in 1..(Cardinality(C16_Breaks(text)) + 1) : C16_Trim(C16_Line(text, k)) # <<>>}

\* C16: the commands translate returns are the lines of the reply, trimmed,
\* without the blank ones and in their order ("ls\n\nls -la\n" gives
\* ["ls", "ls -la"]); no reply or an empty one gives no command.
C16_CommandsAreLines ==
    (pc # "asking" /\ err = Absent) =>
        IF raw = Absent \/ raw = <<>>
        THEN commands = <<>>
        ELSE /\ Len(commands) = Cardinality(C16_Kept(raw))
             /\ \A k \in C16_Kept(raw) :
                    commands[Cardinality({j \in C16_Kept(raw) : j <= k})]
                        = C16_Trim(C16_Line(raw, k))

\* the reply "ls\n\nls -la\n" has given ["ls", "ls -la"]
C16_Witness ==
    /\ pc # "asking"
    /\ raw = <<"l", "s", "\n", "\n", "l", "s", " ", "-", "l", "a", "\n">>
    /\ commands = << <<"l", "s">>, <<"l", "s", " ", "-", "l", "a">> >>


-----------------------------------------------------------------------------
(* Claims about classify_input, checked under SpecClassify *)

\* piece occurs in s
C17_Has(s, piece) ==
    \E i \in 1..(Len(s) - Len(piece) + 1) : \A j \in 1..Len(piece) : s[i + j - 1] = piece[j]

\* s begins with piece
C17_Begins(s, piece) == Len(s) >= Len(piece) /\ \A j \in 1..Len(piece) : s[j] = piece[j]

\* a token that is an environment-variable assignment
C17_Assigns(token) == C17_Has(token, <<"=">>) /\ ~C17_Begins(token, <<"=">>)

\* step 2 of the algorithm: the first token, or when that is an assignment
\* the first later token that is none
C17_Effective(s) ==
    LET tokens == split(s)
        later == {i \in 2..Len(tokens) : ~C17_Assigns(tokens[i])}
    IN  IF C17_Assigns(tokens[1]) /\ later # {}
        THEN tokens[CHOOSE i \in later : \A j \in later : i <= j]
        ELSE tokens[1]

\* the lower-cased whitespace-split tokens
C17_Tokens(s) == {lower(split(s)[i]) : i \in 1..Len(split(s))}

\* the number of stop-words among them
C17_Overlap(s) == Cardinality({t \in C17_Tokens(s) : t \in nl_words})

\* the number of tokens
C17_TokenCount(s) == Cardinality(C17_Tokens(s))

\* twice the running score after row n of the table of step 3, given twice
\* the running score before it
C17_Apply(n, s, execs, running) ==
    running +
    CASE n = 1 -> IF \E p \in {<<".", "/">>, <<"/">>, <<"~">>} : C17_Begins(C17_Effective(s), p)
                  THEN 6 ELSE 0
      [] n = 2 -> IF C17_Begins(C17_Effective(s), <<"$">>) THEN 5 ELSE 0
      [] n = 3 -> IF C17_Effective(s) \in execs THEN 4 ELSE 0
      [] n = 4 -> IF \E op \in {<<"|">>, <<"&", "&">>, <<"|", "|">>, <<">", ">">>, <<">", ";">>,
                                <<";">>, <<"$", "(">>, <<"backtick">>} : C17_Has(s, op)
                  THEN 5 ELSE 0
      [] n = 5 -> IF C17_Has(s, <<">">>) /\ ~C17_Has(s, <<">", ">">>) /\ ~C17_Has(s, <<"arrow">>)
                  THEN 4 ELSE 0
      [] n = 6 -> IF C17_Overlap(s) >= 2 THEN -4
                  ELSE IF C17_Overlap(s) = 1 /\ C17_TokenCount(s) > 2 THEN -1
                  ELSE 0
      [] n = 7 -> IF Len(split(s)) >= 4 /\ running < 4 THEN -3 ELSE 0
      [] n = 8 -> IF isupper(s[1]) /\ Len(split(s)) > 1 THEN -2 ELSE 0
      [] n = 9 -> IF C17_Has(s, <<"?">>) THEN -6 ELSE 0
      [] n = 10 -> IF Len(split(s)) <= 3 /\ C17_Overlap(s) = 0 /\ islower(s) THEN 2 ELSE 0

\* twice the running score after the first n rows
RECURSIVE C17_Running(_, _, _)
C17_Running(n, s, execs) ==
    IF n = 0 THEN 0
    ELSE C17_Apply(n, s, execs, C17_Running(n - 1, s, execs))

\* steps 1, 4 and 5 around the score
C17_Decision(text, execs) ==
    LET s == strip(text)
    IN  IF s = <<>> \/ C17_Begins(s, <<"!">>) \/ s = <<"e", "x", "i", "t">>
           \/ s = <<"q", "u", "i", "t">>
        THEN "builtin"
        ELSE IF s = <<"c", "d">> \/ C17_Begins(s, <<"c", "d", " ">>) THEN "shell"
        ELSE IF C17_Running(10, s, execs) >= 2 THEN "shell"
        ELSE "natural"

\* C17: classify_input returns one of builtin, shell and natural for every
\* input: builtin iff the stripped input is empty, starts with "!" or is exit
\* or quit; otherwise shell for a cd line; otherwise shell iff the score of
\* the weight table, summed in the listed order with the long-sentence
\* penalty reading the running score, is at least 1.0, and natural if not.
C17_ClassifyIsSpecProcedure ==
    pc = "classified" =>
        /\ kind \in {"builtin", "shell", "natural"}
        /\ kind = C17_Decision(user_input, path_execs)

\* "ls what files files" with ls on the path: the stop-word has taken the
\* running score below 2.0, so the long-sentence penalty makes it natural
C17_Witness ==
    /\ pc = "classified"
    /\ user_input = <<"l", "s", " ", "w", "h", "a", "t", " ", "f", "i", "l", "e", "s", " ",
                      "f", "i", "l", "e", "s">>
    /\ <<"l", "s">> \in path_execs
    /\ kind = "natural"


\* C18: with ls on the search path, "ls -la" is shell, "what is my ip address"
\* natural, "!learn" builtin, "cd /tmp" shell and "how do I list files?"
\* natural; the two natural results do not depend on what the search path
\* holds.
C18_Examples ==
    pc = "classified" =>
        /\ (S_ls \in path_execs /\ user_input = <<"l", "s", " ", "-", "l", "a">>) => kind = "shell"
        /\ (S_ls \in path_execs /\ user_input = S_learn) => kind = "builtin"
        /\ (S_ls \in path_execs /\ user_input = <<"c", "d", " ", "/", "t", "m", "p">>) => kind = "shell"
        /\ user_input = <<"w", "h", "a", "t", " ", "i", "s", " ", "m", "y", " ", "i", "p", " ", "a", "d", "d", "r", "e", "s", "s">>
              => kind = "natural"
        /\ user_input = <<"h", "o", "w", " ", "d", "o", " ", "I", " ", "l", "i", "s", "t", " ", "f", "i", "l", "e", "s", "?">>
              => kind = "natural"

\* "what is my ip address" is natural although "what" is found on the path
C18_Witness ==
    /\ pc = "classified"
    /\ user_input = <<"w", "h", "a", "t", " ", "i", "s", " ", "m", "y", " ", "i", "p", " ", "a", "d", "d", "r", "e", "s", "s">>
    /\ S_what \in path_execs
    /\ S_ls \in path_execs
    /\ kind = "natural"


-----------------------------------------------------------------------------
(* Claims about the dispatcher, checked under Spec *)

\* C19: a line that is cd or starts with "cd " is shell for classify_input
\* whatever its score, and typed at the prompt it changes the directory
\* without a digest being rendered, an ask being made or a command list
\* being built.
C19_CdNeverTranslated ==
    line_kind = "cd" =>
        /\ user_input = S_cd \/ SubSeq(user_input, 1, 3) = S_cd_sp
        /\ classify_input(user_input, path_execs) = "shell"
        /\ pc = "top"
        /\ asks = 0
        /\ raw = Absent /\ tip = Absent
        /\ session_context = None
        /\ commands = <<>> /\ explanation = None
        /\ mode = None /\ inflight = None
        /\ Len(executed) = mark.executed + 1
        /\ executed[Len(executed)].via = "chdir"

\* "cd what is the dir?", a question by its score, was taken as a cd
C19_Witness ==
    /\ line_kind = "cd"
    /\ user_input = S_cd_question
    /\ score2(user_input, path_execs) < 2
    /\ asks = 0
    /\ executed[Len(executed)].via = "chdir"
    /\ pc = "top"


\* C20: at most one shell command or one ask is in flight; every record call
\* follows the end of its command and precedes the start of the next command
\* and the next render_context, so a digest handed to translate holds only
\* whole entries of commands that have finished.
C20_OneInFlightRecordedInOrder ==
    /\ (inflight # None) <=> (pc = "running")
    /\ pc \in {"asking", "asking_tip"} =>
          /\ inflight = None
          /\ session_context = render_context(session_log)
          /\ Len(recorded) = mark.recorded
    /\ Len(recorded) = Len(C2_Runs)
    /\ \A k \in 1..Len(recorded) : recorded[k].cmd = C2_Runs[k].cmd
    /\ session_context # None =>
          /\ session_context = render_context(mark.session_log)
          /\ \E j \in 0..mark.recorded :
                mark.session_log = SubSeq(recorded, j + 1, mark.recorded)
          /\ \A k \in 1..Len(mark.session_log) :
                \E n \in 1..Len(C2_Runs) :
                    /\ n <= mark.executed
                    /\ C2_Runs[n].cmd = mark.session_log[k].cmd

\* the second ask of a session is in flight with a digest that shows the
\* command of the line before
C20_Witness ==
    /\ pc = "asking"
    /\ session_log # <<>>
    /\ session_context # None
    /\ session_context # NO_PREVIOUS
    /\ Len(recorded) >= 1
    /\ inflight = None


\* nothing was executed and nothing recorded since the prompt of this line
C21_Untouched ==
    /\ inflight = None
    /\ Len(executed) = mark.executed
    /\ Len(recorded) = mark.recorded
    /\ session_log = mark.session_log
    /\ cwd = mark.cwd

\* C21: in _exec_single the proposed command is executed only on the empty
\* answer; on every other answer ("y" and " " included) nothing is executed
\* and the log and the working directory stay as they were.
C21_SingleRunsOnlyOnEmpty ==
    /\ mode = "single" => (confirm = <<>> /\ Len(commands) = 1)
    /\ (line_kind = "natural" /\ Len(commands) = 1 /\ err = Absent
        /\ pc \notin {"asking", "asking_tip"}) =>
          /\ confirm = Absent =>
                (pc \in {"confirm_single", "exit"} /\ mode = None /\ C21_Untouched)
          /\ (confirm # Absent /\ confirm # <<>>) =>
                (pc = "top" /\ mode = None /\ C21_Untouched)
          /\ confirm = <<>> =>
                /\ mode = "single"
                /\ pc \in {"running", "top"}
                /\ pc = "running" =>
                      (inflight = commands[1] /\ Len(executed) = mark.executed)
                /\ pc = "top" =>
                      /\ Len(executed) = mark.executed + 1
                      /\ executed[Len(executed)].cmd = commands[1]

\* the proposed command was answered y: it was not run
C21_Witness ==
    /\ line_kind = "natural"
    /\ Len(commands) = 1
    /\ confirm = <<"y">>
    /\ pc = "top"
    /\ C21_Untouched


\* the text cd alone, or a text starting with "cd "
C22_IsCd(cmd) == cmd = S_cd \/ (Len(cmd) >= 3 /\ SubSeq(cmd, 1, 3) = S_cd_sp)

\* C22: a cd command proposed by translate (cd alone or starting with "cd ")
\* is carried out with os.chdir and never handed to run, in single, sequential
\* and stepping mode; a cd that fails leaves the working directory as it was.
C22_CdNeverSpawned ==
    line_kind = "natural" =>
        /\ (pc = "running" /\ inflight # None) => ~C22_IsCd(inflight)
        /\ \A k \in (mark.executed + 1)..Len(executed) :
              C22_IsCd(executed[k].cmd) => executed[k].via = "chdir"
        /\ (Len(executed) = mark.executed + 1
            /\ executed[Len(executed)].via = "chdir"
            /\ executed[Len(executed)].rc # 0) => cwd = mark.cwd


\* the lines of an output that are not blank, in their order
C23_NonBlank(output) == SelectSeq(C6_Split(output), LAMBDA l : strip(l) # <<>>)

\* C23: under the status line of every rendered entry stand the first 3
\* non-blank lines of the entry's output (all of them when there are fewer),
\* so that no output line of the digest is blank.
C23_OutputLinesNonBlank ==
    (session_context # None /\ session_log # <<>>) =>
        LET lines == C6_Split(session_context)
            n == Len(session_log)
            m == IF n < 6 THEN n ELSE 6
            status == {i \in 1..Len(lines) : C6_IsStatus(lines[i])}
            Nth(k) == IF k > Cardinality(status) THEN Len(lines) + 1
                      ELSE CHOOSE i \in status : Cardinality({j \in status : j < i}) = k - 1
        IN  \A k \in 1..m :
                LET want == C23_NonBlank(session_log[n - m + k].output)
                    i == Nth(k)
                    count == Nth(k + 1) - i - 1
                IN  /\ count = (IF Len(want) < 3 THEN Len(want) ELSE 3)
                    /\ \A j \in 1..count :
                          /\ strip(lines[i + j]) # <<>>
                          /\ strip(lines[i + j]) = strip(want[j])


-----------------------------------------------------------------------------
(* Further claims about classify_input, checked under SpecClassify *)

\* a classified input that contains "?" and is neither a builtin nor a cd line
C24_Question ==
    /\ pc = "classified"
    /\ kind # "builtin"
    /\ C17_Has(user_input, <<"?">>)
    /\ ~(strip(user_input) = S_cd \/ C17_Begins(strip(user_input), S_cd_sp))

\* C24 as stated: every input that contains "?" and is neither a builtin nor
\* a cd line is natural, whatever shell signals it carries.
C24_Original == C24_Question => kind = "natural"

\* C24, amended: such an input is natural exactly when the other rows of the
\* weight table sum to less than 4.0, and shell when they reach it.
C24_QuestionNeedsFour ==
    C24_Question =>
        (kind = "natural" <=>
            C17_Apply(10, strip(user_input), path_execs,
                      C17_Running(8, strip(user_input), path_execs)) < 8)

\* "/x f?" is a question and shell: path +3.0, "?" -3.0, short lowercase +1.0
C24_Witness ==
    /\ C24_Question
    /\ user_input = <<"/", "x", " ", "f", "?">>
    /\ kind = "shell"


-----------------------------------------------------------------------------
(* Further claims about the dispatcher, checked under Spec *)

\* C25: what classify_input maps to builtin never reaches translate or
\* ask_ai: main handles blank lines, exit and quit, the builtin tokens and
\* every "!" line before its classify_input call, whose result is therefore
\* always shell or natural.
C25_BuiltinNeverClassified ==
    /\ kind \in {None, "shell", "natural"}
    /\ line_kind \in {"shell", "natural"} => kind = line_kind
    /\ ((line_kind = "shell" /\ pc = "running") \/ pc = "asking") =>
          classify_input(user_input, path_execs) = kind
    /\ line_kind \in {"blank", "exit", "builtin", "bang", "force"} =>
          /\ classify_input(user_input, path_execs) = "builtin"
          /\ kind = None
          /\ asks = 0 /\ raw = Absent
          /\ session_context = None
          /\ commands = <<>>
          /\ pc \notin {"asking", "asking_tip", "confirm_single", "confirm_multi"}
    /\ (pc \in {"asking", "asking_tip"} \/ asks > 0) =>
          (line_kind = "natural" /\ kind = "natural")

\* "!ls" is builtin for classify_input; main ran it without classifying it
C25_Witness ==
    /\ line_kind = "force"
    /\ user_input = <<"!", "l", "s">>
    /\ classify_input(user_input, path_execs) = "builtin"
    /\ kind = None
    /\ asks = 0
    /\ pc = "top"


\* ---------------------------------------------------------------------------
\* C26: a !provider switch that fails (no key entered, or the key rejected)
\* leaves provider, model, client, the process environment and the persisted
\* configuration exactly as they were at the prompt; a switch that succeeds
\* makes provider and model the chosen ones, persists them, and re-creates the
\* client for the new provider from the new key; in every state the client is
\* one made for the active provider and the persisted pair is the active pair.
C26_AsAtPrompt ==
    /\ provider = mark.provider
    /\ openrouter_model = mark.openrouter_model
    /\ client = mark.client
    /\ env_file = mark.env_file

=============================================================================
